---------------------------- MODULE Spec2Model ----------------------------
(***************************************************************************)
(* A model of the chress board core: the Board value (12 piece bitboards,  *)
(* active colour, flags byte, halfmove and fullmove counters), make_move   *)
(* and unmake_move, the pseudo-legal / legal move generator and perft.     *)
(*                                                                         *)
(* A Bitboard (u64) is modelled as the set of the indices of its set bits, *)
(* a subset of 0..63; |, &, !, ^ are union, intersection, complement and   *)
(* symmetric difference, << 8 and >> 8 move every member up or down one    *)
(* rank and drop what leaves 0..63.  The Flags byte is kept as the integer *)
(* 0..255 it is in the source.                                             *)
(***************************************************************************)
EXTENDS Integers, Sequences, FiniteSets, TLC

---------------------------------------------------------------------------
(* Colour, piece and square primitives                                     *)

White == 0
Black == 1

Colors == {White, Black}

inverse(c) == 1 - c

direction(c) == 1 - (c * 2)

en_passant_rank(c) == 2 + (c * 3)

Knight == 0
Bishop == 1
Rook == 2
Queen == 3
King == 4
Pawn == 5
\* Option<Piece>::None
None == 6

Squares == 0 .. 63

rank(s) == s \div 8

file(s) == s % 8

\* a difference taken without its absolute value
abs_diff_Signed(a, b) == a - b

abs_diff(a, b) == IF a >= b THEN a - b ELSE b - a

A1 == 0
B1 == 1
C1 == 2
D1 == 3
E1 == 4
F1 == 5
G1 == 6
H1 == 7
A8 == 56
B8 == 57
C8 == 58
D8 == 59
E8 == 60
F8 == 61
G8 == 62
H8 == 63

---------------------------------------------------------------------------
(* Bitboard operations (sets of bit indices)                               *)

Shl8(bb) == {s + 8 : s \in {x \in bb : x + 8 <= 63}}

\* a shift that leaves the bits where they are
Shr8_Unshifted(bb) == bb

Shr8(bb) == {s - 8 : s \in {x \in bb : x >= 8}}

Not64(bb) == Squares \ bb

\* a toggle that only sets bits
Xor64_SetsOnly(a, b) == a \cup b

Xor64(a, b) == (a \ b) \cup (b \ a)

\* u64::trailing_zeros: the index of the lowest set bit, 64 for an empty board
trailing_zeros(bb) == IF bb = {} THEN 64 ELSE CHOOSE s \in bb : \A t \in bb : s <= t

\* the order in which repeated pop_lsb yields the bits of a bitboard
RECURSIVE pop_lsb_order(_)
pop_lsb_order(bb) ==
    IF bb = {} THEN << >>
    ELSE LET i == trailing_zeros(bb) IN << i >> \o pop_lsb_order(bb \ {i})

---------------------------------------------------------------------------
(* Flags byte                                                              *)

WHITE_KINGSIDE == 1
WHITE_QUEENSIDE == 2
BLACK_KINGSIDE == 4
BLACK_QUEENSIDE == 8
EP_FILE == 112
EP_IS_VALID == 128
UNIVERSE == 255

Bit(x, i) == (x \div (2 ^ i)) % 2

And8(a, b) ==
      Bit(a, 0) * Bit(b, 0)       + 2 * Bit(a, 1) * Bit(b, 1)
    + 4 * Bit(a, 2) * Bit(b, 2)   + 8 * Bit(a, 3) * Bit(b, 3)
    + 16 * Bit(a, 4) * Bit(b, 4)  + 32 * Bit(a, 5) * Bit(b, 5)
    + 64 * Bit(a, 6) * Bit(b, 6)  + 128 * Bit(a, 7) * Bit(b, 7)

Not8(a) == 255 - a

Or8(a, b) == a + b - And8(a, b)

\* Mul<bool>: x * (rhs as u8)
MulBool(x, c) == IF c THEN x ELSE 0

kingside(flags, color) == And8(flags \div (2 ^ (color * 2)), WHITE_KINGSIDE) # 0

queenside(flags, color) == And8(flags \div (2 ^ (color * 2)), WHITE_QUEENSIDE) # 0

\* a test that finds the valid bit set in every Flags byte
en_passant_valid_Always(flags) == TRUE

en_passant_valid(flags) == And8(flags, EP_IS_VALID) # 0

en_passant_file_unchecked(flags) == And8(flags, EP_FILE) \div 16

\* Option<u8>: << >> is None, << file >> is Some(file)
en_passant_file(flags) ==
    IF en_passant_valid(flags) THEN << And8(flags, EP_FILE) \div 16 >> ELSE << >>


---------------------------------------------------------------------------
(* Move and MoveData                                                       *)

\* Move::new / Move::new_with_promotion; promotion is None or a piece
Move(from, to, promotion) == [from |-> from, to |-> to, promotion |-> promotion]

PromotionPieces == {Knight, Bishop, Rook, Queen}

MoveData(move, captured_piece, halfmoves, flags) ==
    [move |-> move, captured_piece |-> captured_piece,
     halfmoves |-> halfmoves, flags |-> flags]

NoMoveData == MoveData(Move(0, 0, None), None, 0, 0)

---------------------------------------------------------------------------
(* Board                                                                   *)

KING_STARTING_SQUARES == [c \in Colors |-> IF c = White THEN E1 ELSE E8]

\* [color][0 = kingside, 1 = queenside]
CASTLING_BLOCKERS ==
    [c \in Colors |-> IF c = White THEN << {F1, G1}, {D1, C1, B1} >>
                                   ELSE << {F8, G8}, {D8, C8, B8} >>]

\* a table that asks for no square to be free of attack
CASTLING_CHECKABLES_NoSquares == [c \in Colors |-> << {}, {} >>]

CASTLING_CHECKABLES ==
    [c \in Colors |-> IF c = White THEN << {F1, G1}, {D1, C1} >>
                                   ELSE << {F8, G8}, {D8, C8} >>]

CASTLING_DESTINATIONS ==
    [c \in Colors |-> IF c = White THEN << G1, C1 >> ELSE << G8, C8 >>]

\* a table with no entry for the corners
CASTLING_RIGHTS_FLAGS_NoCorners(sq) == UNIVERSE

CASTLING_RIGHTS_FLAGS(sq) ==
    CASE sq = A1 -> Not8(WHITE_QUEENSIDE)
      [] sq = A8 -> Not8(BLACK_QUEENSIDE)
      [] sq = H1 -> Not8(WHITE_KINGSIDE)
      [] sq = H8 -> Not8(BLACK_KINGSIDE)
      [] OTHER -> UNIVERSE

\* a table with no rook mask on any destination
ROOK_CASTLING_MOVEMASKS_Empty(sq) == {}

ROOK_CASTLING_MOVEMASKS(sq) ==
    CASE sq = G1 -> {H1, F1}
      [] sq = G8 -> {H8, F8}
      [] sq = C1 -> {A1, D1}
      [] sq = C8 -> {A8, D8}
      [] OTHER -> {}

bitboard_index(piece, color) == piece + (color * 6)

bitboard(board, piece, color) == board.pieces[bitboard_index(piece, color)]

add_piece(pieces, piece, color, square) ==
    [pieces EXCEPT ![bitboard_index(piece, color)] = @ \cup {square}]

\* a removal that clears nothing
remove_piece_Keeps(pieces, piece, color, square) == pieces

remove_piece(pieces, piece, color, square) ==
    [pieces EXCEPT ![bitboard_index(piece, color)] = @ \ {square}]

white_pieces(board) ==
    board.pieces[6] \cup board.pieces[7] \cup board.pieces[8]
        \cup board.pieces[9] \cup board.pieces[10] \cup board.pieces[11]

black_pieces(board) ==
    board.pieces[0] \cup board.pieces[1] \cup board.pieces[2]
        \cup board.pieces[3] \cup board.pieces[4] \cup board.pieces[5]

occupied(board) == white_pieces(board) \cup black_pieces(board)

friendly_pieces(board) ==
    LET off == board.active_color * 6 IN
    board.pieces[off] \cup board.pieces[off + 1] \cup board.pieces[off + 2]
        \cup board.pieces[off + 3] \cup board.pieces[off + 4] \cup board.pieces[off + 5]

enemy_pieces(board) ==
    LET off == board.active_color * 6 IN
    board.pieces[6 - off] \cup board.pieces[7 - off] \cup board.pieces[8 - off]
        \cup board.pieces[9 - off] \cup board.pieces[10 - off] \cup board.pieces[11 - off]

\* index 7 (knight | pawn bits both set, say) is past the end of PIECES: a panic
PiecePanic == 7

piece_at(board, square) ==
    LET PIECES == << None, Knight, Bishop, Rook, Queen, King, Pawn, PiecePanic >>
        on(i, j) == square \in (board.pieces[i] \cup board.pieces[j])
        knights == MulBool(1, on(0, 6))
        bishops == MulBool(2, on(1, 7))
        rooks == MulBool(3, on(2, 8))
        queens == MulBool(4, on(3, 9))
        kings == MulBool(5, on(4, 10))
        pawns == MulBool(6, on(5, 11))
        piece_at_square_index ==
            Or8(Or8(Or8(knights, bishops), Or8(rooks, queens)), Or8(kings, pawns))
    IN  PIECES[piece_at_square_index + 1]

MkBoard(pieces, active_color, flags, halfmoves, fullmoves) ==
    [pieces |-> pieces, active_color |-> active_color, flags |-> flags,
     halfmoves |-> halfmoves, fullmoves |-> fullmoves]


---------------------------------------------------------------------------
(* make_move / unmake_move                                                 *)

\* a result that never reports the error
MakeResult_NeverErr(status, board, md) == [status |-> "ok", board |-> board, md |-> md]

\* Result<MoveData, MakeMoveError> together with the Board the call leaves:
\* status "ok", "err" (MakeMoveError) or "panic" (piece_at indexing past PIECES)
MakeResult(status, board, md) == [status |-> status, board |-> board, md |-> md]

\* make_move once piece_at has answered for the move's two squares
make_move_pieces(board, move, moved_piece, captured_at_to) ==
    LET color == board.active_color
        from == move.from
        to == move.to
        promotion == move.promotion
    IN
    IF moved_piece = PiecePanic THEN MakeResult("panic", board, NoMoveData)
    ELSE IF moved_piece = None THEN MakeResult("err", board, NoMoveData)
    ELSE IF captured_at_to = PiecePanic THEN MakeResult("panic", board, NoMoveData)
    ELSE
    LET is_pawn == moved_piece = Pawn
        \* self.halfmoves += 1; a pawn move overwrites it with 0
        halfmoves == IF is_pawn THEN 0 ELSE board.halfmoves + 1
        is_double_move == abs_diff(rank(from), rank(to)) = 2
        \* pawn branch: file bits and valid bit of a double move
        flags_double ==
            Or8(And8(board.flags, Not8(MulBool(EP_FILE, is_double_move))),
                MulBool(Or8(EP_IS_VALID, file(from) * 16), is_double_move))
        ep_file == en_passant_file(flags_double)
        is_en_passant ==
            /\ is_pawn
            /\ ~is_double_move
            /\ ep_file # << >>
            /\ {(en_passant_rank(inverse(color)) * 8) + ep_file[1]} = {to}
        flags_pawn ==
            IF is_double_move THEN flags_double
            ELSE And8(flags_double, Not8(EP_IS_VALID))
        flags_ep == IF is_pawn THEN flags_pawn ELSE And8(board.flags, Not8(EP_IS_VALID))
        capture_square == (rank(from) * 8) + file(to)
        captured_piece == IF is_en_passant THEN Pawn ELSE captured_at_to
        pieces_ep ==
            IF is_en_passant
            THEN remove_piece(board.pieces, Pawn, inverse(color), capture_square)
            ELSE board.pieces
        is_king_move == moved_piece = King
        flags_king == And8(flags_ep, Not8(MulBool(3 * (2 ^ (color * 2)), is_king_move)))
        is_castling == is_king_move /\ abs_diff(file(from), file(to)) = 2
        rook_move_mask == ROOK_CASTLING_MOVEMASKS(to)
        pieces_rook ==
            [pieces_ep EXCEPT ![bitboard_index(Rook, color)] =
                Xor64(@, IF is_castling THEN rook_move_mask ELSE {})]
        is_rook == moved_piece = Rook
        reset_mask == MulBool(UNIVERSE, ~is_rook)
        flags_from == And8(flags_king, Or8(CASTLING_RIGHTS_FLAGS(from), reset_mask))
        flags_to == And8(flags_from, CASTLING_RIGHTS_FLAGS(to))
        pieces_from == remove_piece(pieces_rook, moved_piece, color, from)
        pieces_to ==
            IF promotion # None THEN add_piece(pieces_from, promotion, color, to)
            ELSE add_piece(pieces_from, moved_piece, color, to)
        pieces_capture ==
            IF captured_piece # None
            THEN remove_piece(pieces_to, captured_piece, inverse(color), to)
            ELSE pieces_to
    IN  MakeResult("ok",
            MkBoard(pieces_capture, inverse(color), flags_to, halfmoves,
                    board.fullmoves + inverse(color)),
            MoveData(move, captured_piece, board.halfmoves, board.flags))

make_move(board, move) ==
    make_move_pieces(board, move, piece_at(board, move.from), piece_at(board, move.to))

\* Result<(), UnmakeMoveError> together with the Board the call leaves
UnmakeResult(status, board) == [status |-> status, board |-> board]

unmake_move(board, move_data) ==
    LET from == move_data.move.from
        to == move_data.move.to
        promotion == move_data.move.promotion
        color == inverse(board.active_color)
        at_to == piece_at(board, to)
    IN
    IF promotion = None /\ at_to = PiecePanic THEN UnmakeResult("panic", board)
    ELSE IF promotion = None /\ at_to = None THEN UnmakeResult("err", board)
    ELSE
    LET piece_at_to == IF promotion # None THEN promotion ELSE at_to
        moved_piece == IF promotion # None THEN Pawn ELSE at_to
        pieces_back ==
            remove_piece(add_piece(board.pieces, moved_piece, color, from),
                         piece_at_to, color, to)
        is_castling == moved_piece = King /\ abs_diff(file(from), file(to)) = 2
        rook_move_mask == ROOK_CASTLING_MOVEMASKS(to)
        pieces_rook ==
            [pieces_back EXCEPT ![bitboard_index(Rook, color)] =
                Xor64(@, IF is_castling THEN rook_move_mask ELSE {})]
        ep_mask ==
            {(en_passant_rank(inverse(color)) * 8)
                + en_passant_file_unchecked(move_data.flags)}
        is_en_passant == en_passant_valid(move_data.flags) /\ ep_mask = {to}
        ep_shifted == IF color = White THEN Shr8(ep_mask) ELSE Shl8(ep_mask)
        square_mask == IF is_en_passant THEN ep_shifted ELSE {to}
        pieces_capture ==
            IF move_data.captured_piece # None
            THEN [pieces_rook EXCEPT
                    ![bitboard_index(move_data.captured_piece, inverse(color))] =
                        @ \cup square_mask]
            ELSE pieces_rook
    IN  UnmakeResult("ok",
            MkBoard(pieces_capture, color, move_data.flags, move_data.halfmoves,
                    board.fullmoves - board.active_color))


---------------------------------------------------------------------------
(* Attack tables                                                           *)

OnBoard(r, f) == r \in 0 .. 7 /\ f \in 0 .. 7

Offsets(square, deltas) ==
    {((rank(square) + d[1]) * 8) + file(square) + d[2] :
        d \in {e \in deltas : OnBoard(rank(square) + e[1], file(square) + e[2])}}

KING_MOVES ==
    [sq \in Squares |->
        Offsets(sq, {<<1, -1>>, <<1, 0>>, <<1, 1>>, <<0, -1>>, <<0, 1>>,
                     <<-1, -1>>, <<-1, 0>>, <<-1, 1>>})]

KNIGHT_MOVES ==
    [sq \in Squares |->
        Offsets(sq, {<<2, -1>>, <<2, 1>>, <<1, -2>>, <<1, 2>>,
                     <<-1, -2>>, <<-1, 2>>, <<-2, -1>>, <<-2, 1>>})]

\* PAWN_CAPTURES[color][square]: the two squares diagonally ahead of a pawn of
\* that colour
PAWN_CAPTURES ==
    [c \in Colors |-> [sq \in Squares |->
        Offsets(sq, {<<direction(c), -1>>, <<direction(c), 1>>})]]

ROOK_MOVE_OFFSETS == << 1, 8, -1, -8 >>

BISHOP_MOVE_OFFSETS == << 7, 9, -7, -9 >>

\* a ray that goes on over the edge of the board onto the next rank
RECURSIVE SliderRay_Wraps(_, _, _)
SliderRay_Wraps(target, offset, blockers) ==
    LET next == target + offset IN
    IF next < 0 \/ next > 63 THEN {}
    ELSE IF next \in blockers THEN {next}
    ELSE {next} \cup SliderRay_Wraps(next, offset, blockers)

\* one ray of Slider::moves: the loop body from `target` on
RECURSIVE SliderRay(_, _, _)
SliderRay(target, offset, blockers) ==
    LET next == target + offset IN
    IF next < 0 \/ next > 63 THEN {}
    ELSE IF abs_diff(rank(next), rank(target)) > 1
             \/ abs_diff(file(next), file(target)) > 1 THEN {}
    ELSE IF next \in blockers THEN {next}
    ELSE {next} \cup SliderRay(next, offset, blockers)

Slider_moves(offsets, square, blockers) ==
    UNION {SliderRay(square, offsets[i], blockers) : i \in 1 .. 4}

\* the magic tables hold Slider::moves for every blocker subset of the mask
rook_attacks(square, blockers) == Slider_moves(ROOK_MOVE_OFFSETS, square, blockers)

bishop_attacks(square, blockers) == Slider_moves(BISHOP_MOVE_OFFSETS, square, blockers)

queen_attacks(square, blockers) ==
    rook_attacks(square, blockers) \cup bishop_attacks(square, blockers)

square_attacked_by(board, square, attacker_color) ==
    LET pawn_attackers ==
            PAWN_CAPTURES[inverse(attacker_color)][square]
                \cap bitboard(board, Pawn, attacker_color)
        king_attacks == KING_MOVES[square] \cap bitboard(board, King, attacker_color)
        knight_attacks == KNIGHT_MOVES[square] \cap bitboard(board, Knight, attacker_color)
        rooks_queens ==
            bitboard(board, Rook, attacker_color) \cup bitboard(board, Queen, attacker_color)
        bishops_queens ==
            bitboard(board, Bishop, attacker_color) \cup bitboard(board, Queen, attacker_color)
    IN  \/ pawn_attackers # {}
        \/ king_attacks # {}
        \/ knight_attacks # {}
        \/ (rook_attacks(square, occupied(board)) \cap rooks_queens) # {}
        \/ (bishop_attacks(square, occupied(board)) \cap bishops_queens) # {}

---------------------------------------------------------------------------
(* Move generation                                                         *)

white_pawns_able_to_push(board, empty) == Shr8(empty) \cap bitboard(board, Pawn, White)

black_pawns_able_to_push(board, empty) == Shl8(empty) \cap bitboard(board, Pawn, Black)

RANK_4 == 24 .. 31

RANK_5 == 32 .. 39

white_pawns_able_to_double_push(board, empty) ==
    LET empty_in_rank_3 == Shr8(empty \cap RANK_4) \cap empty
    IN  white_pawns_able_to_push(board, empty_in_rank_3)

black_pawns_able_to_double_push(board, empty) ==
    LET empty_in_rank_6 == Shl8(empty \cap RANK_5) \cap empty
    IN  black_pawns_able_to_push(board, empty_in_rank_6)

RECURSIVE Flatten(_)
Flatten(seqs) == IF seqs = << >> THEN << >> ELSE Head(seqs) \o Flatten(Tail(seqs))

\* Bitboard::append_moves_from and the inner loops of append_moves_*: one
\* Move::new(from, to) per target, lowest bit first
MovesFromTo(from, targets) ==
    LET order == pop_lsb_order(targets) IN
    [j \in 1 .. Len(order) |-> Move(from, order[j], None)]

\* the four promotion moves, or the plain move, of a pawn arriving on `to`
PawnArrivals(from, to) ==
    IF rank(to) % 7 = 0
    THEN << Move(from, to, Knight), Move(from, to, Bishop),
            Move(from, to, Rook), Move(from, to, Queen) >>
    ELSE << Move(from, to, None) >>

pseudo_rook_moves(board, square) ==
    rook_attacks(square, friendly_pieces(board) \cup enemy_pieces(board))
        \ friendly_pieces(board)

pseudo_bishop_moves(board, square) ==
    bishop_attacks(square, friendly_pieces(board) \cup enemy_pieces(board))
        \ friendly_pieces(board)

pseudo_queen_moves(board, square) ==
    (rook_attacks(square, friendly_pieces(board) \cup enemy_pieces(board))
        \cup bishop_attacks(square, friendly_pieces(board) \cup enemy_pieces(board)))
        \ friendly_pieces(board)

\* append_moves_getter with move_getter one of the pseudo_*_moves: kind selects it
append_moves_getter(board, pieces, kind) ==
    LET order == pop_lsb_order(pieces) IN
    Flatten([i \in 1 .. Len(order) |->
        MovesFromTo(order[i],
            CASE kind = Rook -> pseudo_rook_moves(board, order[i])
              [] kind = Bishop -> pseudo_bishop_moves(board, order[i])
              [] OTHER -> pseudo_queen_moves(board, order[i]))])

append_moves_table(pieces, friendly, move_table) ==
    LET order == pop_lsb_order(pieces) IN
    Flatten([i \in 1 .. Len(order) |->
        MovesFromTo(order[i], move_table[order[i]] \ friendly)])

\* the castling block of pseudolegal_moves
CastlingMoves(board, king_square) ==
    LET color == board.active_color
        attacker_color == inverse(color)
        king_start_square == KING_STARTING_SQUARES[color]
        on_start_square == king_square = king_start_square
        in_check == square_attacked_by(board, king_start_square, attacker_color)
        allowed == << kingside(board.flags, color), queenside(board.flags, color) >>
        Side(i) ==
            IF /\ allowed[i]
               /\ (CASTLING_BLOCKERS[color][i] \cap occupied(board)) = {}
               /\ \A sq \in CASTLING_CHECKABLES[color][i] :
                     ~square_attacked_by(board, sq, attacker_color)
            THEN << Move(king_start_square, CASTLING_DESTINATIONS[color][i], None) >>
            ELSE << >>
    IN  IF on_start_square /\ ~in_check THEN Side(1) \o Side(2) ELSE << >>

\* Vec<Move> a generator call leaves, or a panic (an index past Square::ALL, an
\* unwrap of a failed Square::try_from)
GenResult(status, moves) == [status |-> status, moves |-> moves]

\* the body of pseudolegal_moves once (single_push_froms, double_push_froms)
\* has been read out of pawn_data
PseudolegalFrom(board, single_push_froms, double_push_froms) ==
    LET color == board.active_color
        friendly == friendly_pieces(board)
        enemy == enemy_pieces(board)
        singles == pop_lsb_order(single_push_froms)
        doubles == pop_lsb_order(double_push_froms)
        pawns == pop_lsb_order(bitboard(board, Pawn, color))
        single_to(from) == from + (8 * direction(color))
        double_to(from) == from + (16 * direction(color))
        single_moves ==
            Flatten([i \in 1 .. Len(singles) |->
                PawnArrivals(singles[i], single_to(singles[i]))])
        double_moves ==
            [i \in 1 .. Len(doubles) |-> Move(doubles[i], double_to(doubles[i]), None)]
        capture_moves ==
            Flatten([i \in 1 .. Len(pawns) |->
                LET tos == pop_lsb_order(PAWN_CAPTURES[color][pawns[i]] \cap enemy) IN
                Flatten([j \in 1 .. Len(tos) |-> PawnArrivals(pawns[i], tos[j])])])
        ep_square ==
            (en_passant_rank(inverse(color)) * 8) + en_passant_file_unchecked(board.flags)
        can_en_passant == en_passant_valid(board.flags)
        pawns_that_can_take ==
            PAWN_CAPTURES[inverse(color)][ep_square] \cap bitboard(board, Pawn, color)
        actual_pawns == pop_lsb_order(IF can_en_passant THEN pawns_that_can_take ELSE {})
        ep_moves == [i \in 1 .. Len(actual_pawns) |-> Move(actual_pawns[i], ep_square, None)]
        king_index == trailing_zeros(bitboard(board, King, color))
        king_moves == MovesFromTo(king_index, KING_MOVES[king_index] \ friendly)
    IN
    IF \/ \E i \in 1 .. Len(singles) : single_to(singles[i]) \notin Squares
       \/ \E i \in 1 .. Len(doubles) : double_to(doubles[i]) \notin Squares
       \/ king_index \notin Squares
    THEN GenResult("panic", << >>)
    ELSE GenResult("ok",
            single_moves \o double_moves \o capture_moves \o ep_moves
                \o king_moves \o CastlingMoves(board, king_index)
                \o append_moves_table(bitboard(board, Knight, color), friendly, KNIGHT_MOVES)
                \o append_moves_getter(board, bitboard(board, Rook, color), Rook)
                \o append_moves_getter(board, bitboard(board, Bishop, color), Bishop)
                \o append_moves_getter(board, bitboard(board, Queen, color), Queen))

pseudolegal_moves(board) ==
    LET empty_squares == Not64(friendly_pieces(board) \cup enemy_pieces(board))
        pawn_data ==
            << << black_pawns_able_to_push(board, empty_squares),
                  black_pawns_able_to_double_push(board, empty_squares) >>,
               << white_pawns_able_to_push(board, empty_squares),
                  white_pawns_able_to_double_push(board, empty_squares) >> >>
        \* pawn_data[color as usize]
        selected == pawn_data[board.active_color + 1]
    IN  PseudolegalFrom(board, selected[1], selected[2])

\* a legality test that lets every move pass
king_not_attacked_Always(made, current_color) == TRUE

\* is_legal_move once the move is made: is the mover's king left unattacked
king_not_attacked(made, current_color) ==
    LET attacker_color == inverse(current_color)
        king_square == trailing_zeros(bitboard(made, King, current_color))
    IN  ~square_attacked_by(made, king_square, attacker_color)

is_legal_move(board, move) ==
    king_not_attacked(make_move(board, move).board, board.active_color)


\* a removal that drops the last element and leaves the i-th in place
swap_remove_DropsLast(v, i) == SubSeq(v, 1, Len(v) - 1)

swap_remove(v, i) ==
    IF i = Len(v) THEN SubSeq(v, 1, Len(v) - 1)
    ELSE [SubSeq(v, 1, Len(v) - 1) EXCEPT ![i] = v[Len(v)]]

\* the while loop of legal_moves, i counted from 1
RECURSIVE legal_moves_loop(_, _, _)
legal_moves_loop(board, moves, i) ==
    IF i > Len(moves) THEN moves
    ELSE IF ~is_legal_move(board, moves[i])
         THEN legal_moves_loop(board, swap_remove(moves, i), i)
         ELSE legal_moves_loop(board, moves, i + 1)

\* is_legal_move unwraps make_move and indexes Square::ALL with the king's bit
unwrap_or_index_panics(made, current_color) ==
    \/ made.status # "ok"
    \/ bitboard(made.board, King, current_color) = {}

is_legal_move_panics(board, move) ==
    unwrap_or_index_panics(make_move(board, move), board.active_color)

legal_moves(board) ==
    LET pseudo == pseudolegal_moves(board) IN
    IF pseudo.status = "panic" THEN pseudo
    ELSE IF \E i \in 1 .. Len(pseudo.moves) : is_legal_move_panics(board, pseudo.moves[i])
         THEN GenResult("panic", << >>)
    ELSE GenResult("ok", legal_moves_loop(board, pseudo.moves, 1))

---------------------------------------------------------------------------
(* perft                                                                   *)

\* u64 count, or the panic of a legal_moves call under it
PerftResult(status, count) == [status |-> status, count |-> count]

RECURSIVE SumPerft(_)
SumPerft(results) ==
    IF results = << >> THEN PerftResult("ok", 0)
    ELSE LET rest == SumPerft(Tail(results)) IN
         IF Head(results).status = "panic" \/ rest.status = "panic"
         THEN PerftResult("panic", 0)
         ELSE PerftResult("ok", Head(results).count + rest.count)

RECURSIVE perft(_, _), perft_loop(_, _, _)
\* the for loop of perft over the moves legal_moves left in `moves`
perft_loop(board, legal, depth) ==
    IF legal.status = "panic" THEN PerftResult("panic", 0)
    ELSE SumPerft([i \in 1 .. Len(legal.moves) |->
             perft(make_move(board, legal.moves[i]).board, depth - 1)])

perft(board, depth) ==
    IF depth = 0 THEN PerftResult("ok", 1)
    ELSE perft_loop(board, legal_moves(board), depth)

\* Board::pseudolegal_moves of the Board that keeps its own move history.
\* Its colour-indexed tables are laid out Black first, White second, as its
\* pawn_data is, so pawn_data[color as usize] holds the mover's push sets.
Board_pseudolegal_moves(board) ==
    LET empty_squares == Not64(friendly_pieces(board) \cup enemy_pieces(board)) IN
    IF board.active_color = White
    THEN PseudolegalFrom(board, white_pawns_able_to_push(board, empty_squares),
                         white_pawns_able_to_double_push(board, empty_squares))
    ELSE PseudolegalFrom(board, black_pawns_able_to_push(board, empty_squares),
                         black_pawns_able_to_double_push(board, empty_squares))

\* the depth == 1 branch of Board::perft: moves.filter(is_legal_move).count()
Board_perft_depth_1(board, moves) ==
    Cardinality({i \in 1 .. Len(moves) : is_legal_move(board, moves[i])})

\* Board::perft: the moves are generated before depth is looked at; depth 1
\* is answered by counting, deeper calls make each move, skip it if the
\* mover's king is attacked, recurse, and unmake
RECURSIVE Board_perft(_, _), Board_perft_loop(_, _, _)
\* Board::perft once `moves` holds the pseudo-legal moves
Board_perft_loop(board, pseudo, depth) ==
    IF pseudo.status = "panic" THEN PerftResult("panic", 0)
    ELSE IF depth = 0 THEN PerftResult("ok", 1)
    ELSE IF \E i \in 1 .. Len(pseudo.moves) : is_legal_move_panics(board, pseudo.moves[i])
         THEN PerftResult("panic", 0)
    ELSE IF depth = 1 THEN PerftResult("ok", Board_perft_depth_1(board, pseudo.moves))
    ELSE SumPerft([i \in 1 .. Len(pseudo.moves) |->
             IF is_legal_move(board, pseudo.moves[i])
             THEN Board_perft(make_move(board, pseudo.moves[i]).board, depth - 1)
             ELSE PerftResult("ok", 0)])

Board_perft(board, depth) ==
    Board_perft_loop(board, Board_pseudolegal_moves(board), depth)

---------------------------------------------------------------------------
(* divide                                                                  *)

\* (Move, u64), and (u64, Vec<(Move, u64)>) or the panic of a call under it
DivideEntry(move, count) == [move |-> move, count |-> count]
DivideResult(status, total, results) ==
    [status |-> status, total |-> total, results |-> results]

\* PartialOrd::lt of Move: by from, then by to, then by promotion, a move
\* without promotion before one with
Move_lt(a, b) ==
    IF a.from = b.from
    THEN IF a.to = b.to
         THEN IF a.promotion # None
              THEN b.promotion # None /\ a.promotion < b.promotion
              ELSE b.promotion # None
         ELSE a.to < b.to
    ELSE a.from < b.from

\* results.sort_by(|(a, _), (b, _)| a.cmp(b)): a stable sort, so the place of
\* an entry is the number of entries with a lesser move, or with an equal
\* move and standing before it
sort_by(results) ==
    [p \in 1 .. Len(results) |->
        results[CHOOSE i \in 1 .. Len(results) :
            p = 1 + Cardinality({j \in 1 .. Len(results) :
                        \/ Move_lt(results[j].move, results[i].move)
                        \/ j < i /\ ~Move_lt(results[i].move, results[j].move)})]]

\* the loop of divide over `moves`, with the perft results below them
divide_loop(moves, below) ==
    IF SumPerft(below).status = "panic" THEN DivideResult("panic", 0, << >>)
    ELSE DivideResult("ok", SumPerft(below).count,
             [k \in 1 .. Len(moves) |-> DivideEntry(moves[k], below[k].count)])

\* debug::divide once legal_moves has filled `moves`. With a move to loop
\* over, depth - 1 at depth 0 overflows usize: a panic in a debug build, a
\* count usize::MAX plies deep that does not come back in a release build.
divide_legal(board, legal, depth) ==
    IF legal.status = "panic" THEN DivideResult("panic", 0, << >>)
    ELSE IF legal.moves # << >> /\ depth = 0 THEN DivideResult("panic", 0, << >>)
    ELSE divide_loop(legal.moves,
             [k \in 1 .. Len(legal.moves) |->
                 perft(make_move(board, legal.moves[k]).board, depth - 1)])

divide(board, depth) == divide_legal(board, legal_moves(board), depth)

\* Board::divide over the moves of its loop that pass the in_check test
Board_divide_legal(board, legal, depth) ==
    IF legal # << >> /\ depth = 0 THEN DivideResult("panic", 0, << >>)
    ELSE divide_loop(legal,
             [k \in 1 .. Len(legal) |->
                 Board_perft(make_move(board, legal[k]).board, depth - 1)])

Board_divide_sort(divided) == [divided EXCEPT !.results = sort_by(@)]

Board_divide_pseudo(board, pseudo, depth) ==
    IF pseudo.status = "panic" THEN DivideResult("panic", 0, << >>)
    ELSE IF \E i \in 1 .. Len(pseudo.moves) : is_legal_move_panics(board, pseudo.moves[i])
         THEN DivideResult("panic", 0, << >>)
    ELSE Board_divide_sort(
             Board_divide_legal(board,
                 SelectSeq(pseudo.moves, LAMBDA m : is_legal_move(board, m)), depth))

Board_divide(board, depth) ==
    Board_divide_pseudo(board, Board_pseudolegal_moves(board), depth)

---------------------------------------------------------------------------
(* FEN text: load_from_fen and fen                                         *)

\* A &str or String is the sequence of its characters, each a one-character
\* string.
DigitChars == << "0", "1", "2", "3", "4", "5", "6", "7", "8", "9" >>
LowerChars ==
    << "a", "b", "c", "d", "e", "f", "g", "h", "i", "j", "k", "l", "m",
       "n", "o", "p", "q", "r", "s", "t", "u", "v", "w", "x", "y", "z" >>
UpperChars ==
    << "A", "B", "C", "D", "E", "F", "G", "H", "I", "J", "K", "L", "M",
       "N", "O", "P", "Q", "R", "S", "T", "U", "V", "W", "X", "Y", "Z" >>

\* the place of a character in a table, 0 if it is not in it
IndexIn(table, char) ==
    IF \E i \in 1 .. Len(table) : table[i] = char
    THEN CHOOSE i \in 1 .. Len(table) : table[i] = char
    ELSE 0

\* char::to_digit of a decimal digit
to_digit(char) == IndexIn(DigitChars, char) - 1

\* Piece::CHARS by piece, and the upper-case letters ch - (b'a' - b'A') gives
PieceChars == [p \in {Knight, Bishop, Rook, Queen, King, Pawn} |->
    IF p = Knight THEN "n" ELSE IF p = Bishop THEN "b" ELSE IF p = Rook THEN "r"
    ELSE IF p = Queen THEN "q" ELSE IF p = King THEN "k" ELSE "p"]
UpperPieceChars == [p \in {Knight, Bishop, Rook, Queen, King, Pawn} |->
    IF p = Knight THEN "N" ELSE IF p = Bishop THEN "B" ELSE IF p = Rook THEN "R"
    ELSE IF p = Queen THEN "Q" ELSE IF p = King THEN "K" ELSE "P"]

\* Piece::try_from(char) and char.is_uppercase() for the letters the match
\* arm of load_from_fen lets through
PieceOfChar(char) ==
    CHOOSE p \in DOMAIN PieceChars : PieceChars[p] = char \/ UpperPieceChars[p] = char
is_uppercase(char) == \E p \in DOMAIN UpperPieceChars : UpperPieceChars[p] = char

\* fen.split(' '): the sections between the spaces, empty ones included; an
\* empty text has one empty section
split(text) ==
    LET spaces == {i \in 1 .. Len(text) : text[i] = " "}
        cut(k) ==
            IF k = 0 THEN 0
            ELSE IF k > Cardinality(spaces) THEN Len(text) + 1
            ELSE CHOOSE i \in spaces : Cardinality({j \in spaces : j <= i}) = k
    IN  [k \in 1 .. (Cardinality(spaces) + 1) |->
            SubSeq(text, cut(k - 1) + 1, cut(k) - 1)]

\* Result<(), ParseFenError> together with the Board the call leaves: status
\* "ok", the name of the error, or "panic"
LoadResult(status, board) == [status |-> status, board |-> board]

\* Board::new()
Board_new == MkBoard([i \in 0 .. 11 |-> {}], White, 0, 0, 1)

\* the loop over position.chars(), from the i-th character on. A piece on a
\* rank below the first or on index 64 and up fails Square::try_from, which
\* is unwrapped. (rank and file are i8: they stay far from its limits in a
\* text of fewer than 16 characters per rank and 128 ranks.)
RECURSIVE load_position(_, _, _, _, _)
load_position(board, position, i, at_rank, at_file) ==
    IF i > Len(position) THEN LoadResult("ok", board)
    ELSE IF to_digit(position[i]) \in 0 .. 8
    THEN load_position(board, position, i + 1, at_rank, at_file + to_digit(position[i]))
    ELSE IF position[i] \in {"p", "n", "b", "r", "q", "k", "P", "N", "B", "R", "Q", "K"}
    THEN IF at_rank < 0 \/ (at_rank * 8) + at_file > 63
         THEN LoadResult("panic", board)
         ELSE load_position(
                  [board EXCEPT !.pieces =
                      add_piece(@, PieceOfChar(position[i]),
                                IF is_uppercase(position[i]) THEN White ELSE Black,
                                (at_rank * 8) + at_file)],
                  position, i + 1, at_rank, at_file + 1)
    ELSE IF position[i] = "/"
    THEN load_position(board, position, i + 1, at_rank - 1, 0)
    ELSE LoadResult("BadPosition", board)

\* Square::try_from(&str) of the lower-cased text: rank * 8 + file from the
\* distances of value[1] from '1' and of value[0] from 'a', accepted when it
\* is below 64. Some(index) is << index >>, an error << >>. "panic" where
\* value[1] is indexed past the end of the text, and where a character below
\* '1' or below 'a' is subtracted from, as overflow checks have it.
to_ascii_lowercase(char) ==
    IF IndexIn(UpperChars, char) # 0 THEN LowerChars[IndexIn(UpperChars, char)] ELSE char

Square_index(rank_index, file_index) ==
    IF rank_index < 0 \/ file_index < 0 THEN "panic"
    ELSE IF (rank_index * 8) + file_index < 64 THEN << (rank_index * 8) + file_index >>
    ELSE << >>

Square_try_from(value) ==
    IF Len(value) < 2 THEN "panic"
    ELSE Square_index(
             IF to_digit(value[2]) >= 1 THEN to_digit(value[2]) - 1
             ELSE IF IndexIn(LowerChars, to_ascii_lowercase(value[2])) # 0 THEN 8
             ELSE -1,
             IndexIn(LowerChars, to_ascii_lowercase(value[1])) - 1)

\* str::parse::<u32>: an optional '+', then decimal digits, at least one;
\* Some(n) as << n >>, an error as << >>
RECURSIVE digits_value(_)
digits_value(digits) ==
    IF digits = << >> THEN 0
    ELSE (10 * digits_value(SubSeq(digits, 1, Len(digits) - 1)))
             + to_digit(digits[Len(digits)])

parse_u32(text) ==
    LET digits == IF text # << >> /\ text[1] = "+" THEN Tail(text) ELSE text IN
    IF digits = << >> \/ \E i \in 1 .. Len(digits) : to_digit(digits[i]) \notin 0 .. 9
    THEN << >>
    ELSE << digits_value(digits) >>

\* a castling section that is read and grants nothing
load_castling_rights_None(board, castling_rights, i) == LoadResult("ok", board)

\* the castling section: the flags with the bit of each letter set
RECURSIVE load_castling_rights(_, _, _)
load_castling_rights(board, castling_rights, i) ==
    IF i > Len(castling_rights) THEN LoadResult("ok", board)
    ELSE IF castling_rights[i] \notin {"K", "Q", "k", "q"}
    THEN LoadResult("BadCastlingRights", board)
    ELSE load_castling_rights(
             [board EXCEPT !.flags =
                 Or8(@, IF castling_rights[i] = "K" THEN WHITE_KINGSIDE
                        ELSE IF castling_rights[i] = "Q" THEN WHITE_QUEENSIDE
                        ELSE IF castling_rights[i] = "k" THEN BLACK_KINGSIDE
                        ELSE BLACK_QUEENSIDE)],
             castling_rights, i + 1)

\* load_from_fen from the sixth section on
load_fullmoves(board, sections) ==
    IF Len(sections) < 6 THEN LoadResult("WrongSectionCount", board)
    ELSE IF parse_u32(sections[6]) = << >> THEN LoadResult("BadFullmoves", board)
    ELSE IF parse_u32(sections[6])[1] = 0 THEN LoadResult("BadFullmoves", board)
    ELSE LoadResult("ok", [board EXCEPT !.fullmoves = parse_u32(sections[6])[1]])

\* a loader for which the two counters are optional
load_halfmoves_Optional(board, sections) ==
    IF Len(sections) < 5 THEN LoadResult("ok", board) ELSE load_fullmoves(board, sections)

\* ... from the fifth section on
load_halfmoves(board, sections) ==
    IF Len(sections) < 5 THEN LoadResult("WrongSectionCount", board)
    ELSE IF parse_u32(sections[5]) = << >> THEN LoadResult("BadHalfmoves", board)
    ELSE load_fullmoves([board EXCEPT !.halfmoves = parse_u32(sections[5])[1]], sections)

\* ... from the en-passant section on: the valid bit is set before the
\* square is parsed
load_en_passant(board, sections) ==
    IF Len(sections) < 4 THEN LoadResult("WrongSectionCount", board)
    ELSE IF sections[4] = << "-" >> THEN load_halfmoves(board, sections)
    ELSE IF Square_try_from(sections[4]) = "panic"
    THEN LoadResult("panic", [board EXCEPT !.flags = Or8(@, EP_IS_VALID)])
    ELSE IF Square_try_from(sections[4]) = << >>
    THEN LoadResult("BadEnPassant", [board EXCEPT !.flags = Or8(@, EP_IS_VALID)])
    ELSE load_halfmoves(
             [board EXCEPT !.flags =
                 Or8(Or8(@, EP_IS_VALID), file(Square_try_from(sections[4])[1]) * 16)],
             sections)

\* ... from the castling section on, its loop done
load_after_castling(loaded, sections) ==
    IF loaded.status # "ok" THEN loaded ELSE load_en_passant(loaded.board, sections)

load_castling(board, sections) ==
    IF Len(sections) < 3 THEN LoadResult("WrongSectionCount", board)
    ELSE IF sections[3] = << "-" >> THEN load_en_passant(board, sections)
    ELSE load_after_castling(load_castling_rights(board, sections[3], 1), sections)

\* ... once the colour is set: the king of the side not to move
\* a loader that goes on to the castling rights without looking at the king
\* of the side not to move
load_enemy_king_Unchecked(board, sections) == load_castling(board, sections)

load_enemy_king(board, sections) ==
    IF square_attacked_by(board,
           trailing_zeros(bitboard(board, King, inverse(board.active_color))),
           board.active_color)
    THEN LoadResult("InvalidPosition", board)
    ELSE load_castling(board, sections)

\* ... from the king count on
load_active_color(board, sections) ==
    IF Cardinality(bitboard(board, King, White)) # 1
    THEN LoadResult("InvalidPosition", board)
    ELSE IF Cardinality(bitboard(board, King, Black)) # 1
    THEN LoadResult("InvalidPosition", board)
    ELSE IF Len(sections) < 2 THEN LoadResult("WrongSectionCount", board)
    ELSE IF sections[2] = << "w" >>
    THEN load_enemy_king([board EXCEPT !.active_color = White], sections)
    ELSE IF sections[2] = << "b" >>
    THEN load_enemy_king([board EXCEPT !.active_color = Black], sections)
    ELSE LoadResult("BadColor", board)

load_after_position(loaded, sections) ==
    IF loaded.status # "ok" THEN loaded ELSE load_active_color(loaded.board, sections)

\* Board::load_from_fen on the Board `board`: split always yields a first
\* section, so its WrongSectionCount is never returned
load_from_sections(board, sections) ==
    load_after_position(load_position(board, sections[1], 1, 7, 0), sections)

\* load_from_fen without its first two statements
load_from_fen_Unreset(board_now, fen_text) ==
    load_from_sections(board_now, split(fen_text))

load_from_fen(board, fen_text) ==
    load_from_sections([board EXCEPT !.pieces = [i \in 0 .. 11 |-> {}], !.flags = 0],
                       split(fen_text))

\* Option<Board>::None
NoBoard == [pieces |-> << >>]

\* Board::from_fen: the loaded Board, or the error and no Board
from_fen_result(loaded) ==
    IF loaded.status = "ok" THEN loaded ELSE LoadResult(loaded.status, NoBoard)

from_fen(fen_text) == from_fen_result(load_from_fen(Board_new, fen_text))

\* a String, or the panic of piece_at indexing past PIECES
FenResult(status, text) == [status |-> status, text |-> text]

\* format!("{}", n) of an unsigned number
RECURSIVE format_number(_)
format_number(n) ==
    IF n < 10 THEN << DigitChars[n + 1] >>
    ELSE format_number(n \div 10) \o << DigitChars[(n % 10) + 1] >>

\* the pending count of empty tiles, pushed as a digit when it is not 0
push_tiles(text, tiles_since_last_piece) ==
    IF tiles_since_last_piece # 0
    THEN Append(text, DigitChars[tiles_since_last_piece + 1])
    ELSE text

\* the character of the piece on `square`: upper case where the square is in
\* black_pieces(), which is pieces[0..6], the bitboards bitboard_index gives
\* Color::White
piece_char(board, piece, square) ==
    IF square \in black_pieces(board) THEN UpperPieceChars[piece] ELSE PieceChars[piece]

\* the loop of fen over the files of one rank, from file_index on: at the
\* end of a rank the pending count and a '/' are pushed and the count starts
\* again; at the end of the last rank the loop breaks first
RECURSIVE fen_rank(_, _, _, _, _)
fen_rank(board, rank_index, file_index, tiles_since_last_piece, text) ==
    IF file_index = 8
    THEN IF rank_index = 0 THEN text
         ELSE Append(push_tiles(text, tiles_since_last_piece), "/")
    ELSE IF piece_at(board, (rank_index * 8) + file_index) = None
    THEN fen_rank(board, rank_index, file_index + 1, tiles_since_last_piece + 1, text)
    ELSE fen_rank(board, rank_index, file_index + 1, 0,
             Append(push_tiles(text, tiles_since_last_piece),
                    piece_char(board, piece_at(board, (rank_index * 8) + file_index),
                               (rank_index * 8) + file_index)))

\* the loop over all the squares, a8 to h8 first, a1 to h1 last
fen_loop(board) ==
    IF \E square \in Squares : piece_at(board, square) = PiecePanic
    THEN FenResult("panic", << >>)
    ELSE FenResult("ok",
             fen_rank(board, 7, 0, 0, << >>) \o fen_rank(board, 6, 0, 0, << >>)
                 \o fen_rank(board, 5, 0, 0, << >>) \o fen_rank(board, 4, 0, 0, << >>)
                 \o fen_rank(board, 3, 0, 0, << >>) \o fen_rank(board, 2, 0, 0, << >>)
                 \o fen_rank(board, 1, 0, 0, << >>) \o fen_rank(board, 0, 0, 0, << >>))

\* the castling section: the letters of the rights set, or '-'
fen_rights(flags) ==
    (IF And8(flags, WHITE_KINGSIDE) # 0 THEN << "K" >> ELSE << >>)
        \o (IF And8(flags, WHITE_QUEENSIDE) # 0 THEN << "Q" >> ELSE << >>)
        \o (IF And8(flags, BLACK_KINGSIDE) # 0 THEN << "k" >> ELSE << >>)
        \o (IF And8(flags, BLACK_QUEENSIDE) # 0 THEN << "q" >> ELSE << >>)

\* the en-passant section: the file of the flags and the rank behind a pawn
\* of the side not to move, or '-'
fen_en_passant(board) ==
    IF en_passant_file(board.flags) # << >>
    THEN << LowerChars[en_passant_file(board.flags)[1] + 1] >>
             \o format_number(en_passant_rank(inverse(board.active_color)) + 1)
    ELSE << "-" >>

\* the sections after the position
fen_tail(board) ==
    << " ", IF board.active_color = White THEN "w" ELSE "b", " " >>
        \o (IF fen_rights(board.flags) = << >> THEN << "-" >> ELSE fen_rights(board.flags))
        \o << " " >> \o fen_en_passant(board)
        \o << " " >> \o format_number(board.halfmoves)
        \o << " " >> \o format_number(board.fullmoves)

fen_after_position(board, position) ==
    IF position.status = "panic" THEN position
    ELSE FenResult("ok", position.text \o fen_tail(board))

\* Board::fen
fen(board) == fen_after_position(board, fen_loop(board))

---------------------------------------------------------------------------
(* Move as the u16 it is packed in; Move and Square as text                *)

\* promotion.promotion_mask(): (1 << piece) & PROMOTION_MASK, which is zero
\* for the two pieces after the queen
promotion_mask(piece) == IF piece <= Queen THEN 2 ^ piece ELSE 0

\* Move::new: (from << 10) | (to << 4)
Move_new(from, to) == (from * 1024) + (to * 16)

\* Move::new_with_promotion: (from << 10) | (to << 4) | promotion_mask
Move_new_with_promotion(from, to, promotion) ==
    (from * 1024) + (to * 16) + promotion_mask(promotion)

Move_new_with_possible_promotion(from, to, promotion) ==
    IF promotion # None THEN Move_new_with_promotion(from, to, promotion)
    ELSE Move_new(from, to)

\* a decoder that shifts the target down and forgets the six-bit mask
Move_to_Unmasked(packed) == packed \div 16

\* self.0 >> 10
Move_from(packed) == packed \div 1024

\* (self.0 >> 4) & 0b111111
Move_to(packed) == (packed \div 16) % 64

\* LOOKUP of Move::promotion, by self.0 & PROMOTION_MASK; it has nine entries
LOOKUP == << None, Knight, Bishop, None, Rook, None, None, None, Queen >>

Move_promotion(packed) ==
    IF packed % 16 > 8 THEN "panic" ELSE LOOKUP[(packed % 16) + 1]

\* the three values the comparisons and Display take out of a Move first
Unpacked(packed) == Move(Move_from(packed), Move_to(packed), Move_promotion(packed))

\* PartialOrd::ge, gt and le of Move on (from, to, promotion); lt is Move_lt
Move_ge(a, b) ==
    IF a.from = b.from
    THEN IF a.to = b.to
         THEN IF a.promotion # None
              THEN IF b.promotion # None THEN a.promotion >= b.promotion ELSE TRUE
              ELSE IF b.promotion # None THEN FALSE ELSE TRUE
         ELSE a.to >= b.to
    ELSE a.from >= b.from

\* a strict comparison that also holds between equal moves
Move_gt_OrEqual(a, b) == Move_ge(a, b)

Move_gt(a, b) ==
    IF a.from = b.from
    THEN IF a.to = b.to
         THEN IF a.promotion # None
              THEN IF b.promotion # None THEN a.promotion > b.promotion ELSE TRUE
              ELSE FALSE
         ELSE a.to > b.to
    ELSE a.from > b.from

Move_le(a, b) ==
    IF a.from = b.from
    THEN IF a.to = b.to
         THEN IF a.promotion # None
              THEN IF b.promotion # None THEN a.promotion <= b.promotion ELSE FALSE
              ELSE TRUE
         ELSE a.to <= b.to
    ELSE a.from <= b.from

\* Ord::cmp of Move
Move_cmp(a, b) ==
    IF Move_gt(a, b) THEN "Greater" ELSE IF Move_lt(a, b) THEN "Less" ELSE "Equal"

\* the code point of a character of the texts parsed below: digits, letters,
\* space, '+', '-' and '/'
CharCode(char) ==
    IF IndexIn(DigitChars, char) # 0 THEN 47 + IndexIn(DigitChars, char)
    ELSE IF IndexIn(UpperChars, char) # 0 THEN 64 + IndexIn(UpperChars, char)
    ELSE IF IndexIn(LowerChars, char) # 0 THEN 96 + IndexIn(LowerChars, char)
    ELSE IF char = " " THEN 32
    ELSE IF char = "+" THEN 43
    ELSE IF char = "-" THEN 45
    ELSE 47

\* Display of Square: the file letter, then the rank digit
Square_fmt(square) == << LowerChars[file(square) + 1], DigitChars[rank(square) + 2] >>

\* Square::try_from(&str) on any of those characters. value[1] and value[0]
\* are indexed in a Vec of the characters, so a text of fewer than two
\* panics. The two subtractions are on usize: with overflow checks (a debug
\* build) a character below '1' or below 'a' panics; without them (a
\* release build) the difference wraps, and so do rank * 8 and the sum, so
\* the index is accepted when rank * 8 + file taken over the integers lies
\* in 0..63.
Square_try_from_str(value, overflow_checks) ==
    IF Len(value) < 2 THEN "panic"
    ELSE LET rank_index == CharCode(to_ascii_lowercase(value[2])) - 49
             file_index == CharCode(to_ascii_lowercase(value[1])) - 97
         IN  IF overflow_checks /\ (rank_index < 0 \/ file_index < 0) THEN "panic"
             ELSE IF (rank_index * 8) + file_index \in 0 .. 63
             THEN << (rank_index * 8) + file_index >>
             ELSE << >>

\* Piece::try_from(char): LOOKUP.get(value as usize - 'A' as usize); the
\* subtraction panics below 'A' with overflow checks and wraps to an index
\* past the table without them
Piece_try_from(char, overflow_checks) ==
    IF CharCode(char) < 65 THEN (IF overflow_checks THEN "panic" ELSE << >>)
    ELSE IF \E piece \in DOMAIN PieceChars :
                char \in {PieceChars[piece], UpperPieceChars[piece]}
    THEN << PieceOfChar(char) >>
    ELSE << >>

\* what Move::try_from returns: Ok(move), one of the ParseMoveError values,
\* or a panic
ParsedMove(status, packed) == [status |-> status, move |-> packed]

\* Move::try_from once both squares are parsed: value.chars().nth(4)
Move_try_from_promotion(value, overflow_checks, from, to) ==
    IF Len(value) < 5 THEN ParsedMove("ok", Move_new(from, to))
    ELSE IF Piece_try_from(value[5], overflow_checks) = "panic" THEN ParsedMove("panic", 0)
    ELSE IF Piece_try_from(value[5], overflow_checks) = << >>
    THEN ParsedMove("BadPromotion", 0)
    ELSE ParsedMove("ok",
             Move_new_with_promotion(from, to, Piece_try_from(value[5], overflow_checks)[1]))

\* ... once `from` is parsed: &value[2..4] panics on a text shorter than four
Move_try_from_to(value, overflow_checks, from) ==
    IF Len(value) < 4 THEN ParsedMove("panic", 0)
    ELSE IF Square_try_from_str(SubSeq(value, 3, 4), overflow_checks) = "panic"
    THEN ParsedMove("panic", 0)
    ELSE IF Square_try_from_str(SubSeq(value, 3, 4), overflow_checks) = << >>
    THEN ParsedMove("BadTo", 0)
    ELSE Move_try_from_promotion(value, overflow_checks, from,
             Square_try_from_str(SubSeq(value, 3, 4), overflow_checks)[1])

\* Move::try_from(&str): &value[0..2] panics on a text shorter than two
Move_try_from(value, overflow_checks) ==
    IF Len(value) < 2 THEN ParsedMove("panic", 0)
    ELSE IF Square_try_from_str(SubSeq(value, 1, 2), overflow_checks) = "panic"
    THEN ParsedMove("panic", 0)
    ELSE IF Square_try_from_str(SubSeq(value, 1, 2), overflow_checks) = << >>
    THEN ParsedMove("BadFrom", 0)
    ELSE Move_try_from_to(value, overflow_checks,
             Square_try_from_str(SubSeq(value, 1, 2), overflow_checks)[1])

\* Display of Move: from, to, then the promotion letter or a space
Move_fmt(packed) ==
    Square_fmt(Move_from(packed)) \o Square_fmt(Move_to(packed))
        \o << IF Move_promotion(packed) = None THEN " "
              ELSE PieceChars[Move_promotion(packed)] >>

---------------------------------------------------------------------------
(* Positions                                                               *)

\* [Bitboard; 12] from its twelve entries, indexed 0..11 as in the source
Bitboards(t) == [i \in 0 .. 11 |-> t[i + 1]]

\* START_FEN, equal to Board::default()
\* rnbqkbnr/pppppppp/8/8/8/8/PPPPPPPP/RNBQKBNR w KQkq - 0 1
StartBoard ==
    MkBoard(Bitboards(<< {1, 6}, {2, 5}, {0, 7},
               {3}, {4}, {8, 9, 10, 11, 12, 13, 14, 15},
               {57, 62}, {58, 61}, {56, 63},
               {59}, {60}, {48, 49, 50, 51, 52, 53, 54, 55} >>),
            White, 15, 0, 1)

\* POSITION_3
\* 8/2p5/3p4/KP5r/1R3p1k/8/4P1P1/8 w - - 0 1
Position3Board ==
    MkBoard(Bitboards(<< {}, {}, {25},
               {}, {32}, {12, 14, 33},
               {}, {}, {39},
               {}, {31}, {29, 43, 50} >>),
            White, 0, 0, 1)

\* POSITION_4
\* r3k2r/Pppp1ppp/1b3nbN/nP6/BBP1P3/q4N2/Pp1P2PP/R2Q1RK1 w kq - 0 1
Position4Board ==
    MkBoard(Bitboards(<< {21, 47}, {24, 25}, {0, 5},
               {3}, {6}, {8, 11, 14, 15, 26, 28, 33, 48},
               {32, 45}, {41, 46}, {56, 63},
               {16}, {60}, {9, 49, 50, 51, 53, 54, 55} >>),
            White, 12, 0, 1)

\* A position load_from_fen accepts: no pawns, the knight on d2 pinned to its
\* king, and Black's kingside right set with a bishop, not a rook, on h8
\* 4k2b/8/8/8/1b6/8/3N4/R3K2R w KQk - 0 1
CornerBoard ==
    MkBoard(Bitboards(<< {11}, {}, {0, 7},
               {}, {4}, {},
               {}, {25, 63}, {},
               {}, {60}, {} >>),
            White, 7, 0, 1)

\* A position load_from_fen accepts: the white king stands next to the rook
\* on h8 that Black's kingside right is tied to
\* 4k2r/6K1/8/8/8/8/8/8 w k - 0 1
KingCornerBoard ==
    MkBoard(Bitboards(<< {}, {}, {},
               {}, {54}, {},
               {}, {}, {63},
               {}, {60}, {} >>),
            White, 4, 0, 1)

\* A position load_from_fen accepts: Black has just played e7e5 beside the
\* white pawn on d5, as in TEST_FEN of make_unmake_en_passant
\* 4k3/8/8/3Pp3/8/8/8/4K3 w - e6 0 3
EnPassantBoard ==
    MkBoard(Bitboards(<< {}, {}, {},
               {}, {4}, {35},
               {}, {}, {},
               {}, {60}, {36} >>),
            White, 192, 0, 3)

\* A position load_from_fen accepts: a white pawn one step from promotion with
\* a knight to capture beside its path, and a black pawn one step from its own
\* 1n2k3/P7/8/8/8/8/7p/4K3 w - - 0 1
PromotionBoard ==
    MkBoard(Bitboards(<< {}, {}, {},
               {}, {4}, {48},
               {57}, {}, {},
               {}, {60}, {15} >>),
            White, 0, 0, 1)

InitBoards ==
    {StartBoard, Position3Board, Position4Board, CornerBoard,
     KingCornerBoard, EnPassantBoard, PromotionBoard}

---------------------------------------------------------------------------
(* The moves a UCI front end sends: `position ... moves m1 m2 ...` hands    *)
(* each parsed move to make_move unfiltered, trusting it to be a legal     *)
(* chess move of the side to move.                                         *)

ChessPseudolegal(board) ==
    LET empty_squares == Not64(occupied(board)) IN
    IF board.active_color = White
    THEN PseudolegalFrom(board, white_pawns_able_to_push(board, empty_squares),
                         white_pawns_able_to_double_push(board, empty_squares))
    ELSE PseudolegalFrom(board, black_pawns_able_to_push(board, empty_squares),
                         black_pawns_able_to_double_push(board, empty_squares))

Range(seq) == {seq[i] : i \in 1 .. Len(seq)}

\* a king's two-file step with no rook of its colour on the corner beside it
CastlesWithoutRook(board, m) ==
    /\ piece_at(board, m.from) = King
    /\ abs_diff(file(m.from), file(m.to)) = 2
    /\ (rank(m.from) * 8) + (IF file(m.to) > file(m.from) THEN 7 ELSE 0)
           \notin bitboard(board, Rook, board.active_color)

UciMoves(board) ==
    {m \in Range(ChessPseudolegal(board).moves) :
        is_legal_move(board, m) /\ ~CastlesWithoutRook(board, m)}

---------------------------------------------------------------------------
(* State machine: a driver that makes moves and takes them back            *)

MaxPly == 2

VARIABLES
    board,      \* the Board
    move_list,  \* MoveData of the moves made and not yet unmade, oldest first
    trail,      \* the Board and move_list as they were before each of those moves
    start,      \* the Board the driver began with
    op,         \* the last operation and what it was given
    caller,     \* the thread in perft_parallel: where it is, its locals
    handles,    \* the worker threads spawned, in spawn order
    results,    \* the AtomicU64 the workers add to
    mutex,      \* the Mutex around it: 0 when free, else the worker holding it
    manager,    \* the SearchManager's own fields: canceller, running, settings
    cancelled,  \* the AtomicBool shared by the manager, its searches and timers
    best_move,  \* the Move shared by the manager, its searches and timers
    best_eval,  \* the AtomicI32 shared by the manager and its searches
    cancellers, \* the timer threads start_search spawned, in spawn order
    searches    \* the Search threads start_search spawned, in spawn order

vars ==
    << board, move_list, trail, start, op, caller, handles, results, mutex,
       manager, cancelled, best_move, best_eval, cancellers, searches >>

\* the state of the engine's search
engine == << manager, cancelled, best_move, best_eval, cancellers, searches >>

\* the state of perft_parallel
threads == << caller, handles, results, mutex >>

\* the locals of perft_parallel: depth, moves, the index of the next move of
\* the loop, the number of handles joined, the value returned
Caller(pc, depth, moves, i, joined, ret) ==
    [pc |-> pc, depth |-> depth, moves |-> moves, i |-> i, joined |-> joined, ret |-> ret]

\* SearchManager::new: no canceller, not running, the default settings
\* movetime, the flag clear, NULLMOVE and 0 published, nothing spawned
NoSearch ==
    /\ manager = [canceller |-> 0, running |-> FALSE, movetime |-> "Infinite",
                  searches |-> 0, current |-> 0]
    /\ cancelled = FALSE
    /\ best_move = Move(0, 0, None)
    /\ best_eval = 0
    /\ cancellers = << >>
    /\ searches = << >>

\* no perft_parallel call is running
NoThreads ==
    /\ caller = Caller("idle", 0, << >>, 1, 0, 0)
    /\ handles = << >>
    /\ results = 0
    /\ mutex = 0

\* the Board and the history held beside it, as one value
Snapshot(b, history) == [board |-> b, move_list |-> history]

Op(kind, move, before, md, expect, immediate) ==
    [kind |-> kind, move |-> move, before |-> before, md |-> md,
     expect |-> expect, immediate |-> immediate]

Init ==
    /\ board \in InitBoards
    /\ move_list = << >>
    /\ trail = << >>
    /\ start = board
    /\ op = Op("init", Move(0, 0, None), board, NoMoveData, Snapshot(board, << >>), FALSE)
    /\ NoThreads
    /\ NoSearch

\* board.make_move(m) for a move the front end sent; the MoveData is kept
MakeMove ==
    /\ op.kind \in {"init", "make"}
    /\ Len(move_list) < MaxPly
    /\ \E m \in UciMoves(board) :
        LET made == make_move(board, m) IN
        /\ made.status = "ok"
        /\ board' = made.board
        /\ move_list' = Append(move_list, made.md)
        /\ trail' = Append(trail, Snapshot(board, move_list))
        /\ op' = Op("make", m, board, made.md, Snapshot(board, move_list), FALSE)
    /\ UNCHANGED start
    /\ UNCHANGED << threads, engine >>

\* board.unmake_move(md) with the most recent MoveData
UnmakeMove ==
    /\ move_list # << >>
    /\ LET md == move_list[Len(move_list)]
           unmade == unmake_move(board, md)
       IN  /\ unmade.status = "ok"
           /\ board' = unmade.board
           /\ move_list' = SubSeq(move_list, 1, Len(move_list) - 1)
           /\ trail' = SubSeq(trail, 1, Len(trail) - 1)
           /\ op' = Op("unmake", md.move, board, md, trail[Len(trail)], op.kind = "make")
    /\ UNCHANGED start
    /\ UNCHANGED << threads, engine >>

\* board.make_move(m) for a first move that names an empty `from` square: the
\* call returns Err(MakeMoveError) and the front end's expect ends the run
MakeMoveFails ==
    /\ op.kind = "init"
    /\ \E from \in Squares : \E to \in {(from + 8) % 64, 63 - from} :
        LET m == Move(from, to, None)
            made == make_move(board, m)
        IN  /\ made.status = "err"
            /\ board' = made.board
            /\ op' = Op("fail", m, board, made.md, Snapshot(board, move_list), FALSE)
    /\ UNCHANGED << move_list, trail, start >>
    /\ UNCHANGED << threads, engine >>

Next == MakeMove \/ UnmakeMove \/ MakeMoveFails

Spec == Init /\ [][Next]_vars

---------------------------------------------------------------------------
(* State machine: perft runs on a position and on the positions below it   *)

MaxDepth == 2

\* positions load_from_fen accepts, small enough to count to MaxDepth + 1
PerftBoards == {CornerBoard, KingCornerBoard, EnPassantBoard, PromotionBoard}

\* what a call returned: the function run, its depth argument, its result
PerftOp(kind, depth, result) == [kind |-> kind, depth |-> depth, result |-> result]

PerftInit ==
    /\ board \in PerftBoards
    /\ move_list = << >>
    /\ trail = << >>
    /\ start = board
    /\ op = PerftOp("position", 0, PerftResult("ok", 0))
    /\ NoThreads
    /\ NoSearch

\* the loop of perft steps to the position after a legal move and calls
\* itself there with depth - 1
PerftRecurse ==
    /\ op.kind = "position"
    /\ Len(trail) < MaxDepth - 1
    /\ \E pseudo \in {Board_pseudolegal_moves(board)} :
        /\ pseudo.status = "ok"
        /\ \E i \in 1 .. Len(pseudo.moves) :
            \E made \in {make_move(board, pseudo.moves[i])} :
                /\ ~is_legal_move_panics(board, pseudo.moves[i])
                /\ is_legal_move(board, pseudo.moves[i])
                /\ board' = made.board
                /\ trail' = Append(trail, Snapshot(board, move_list))
    /\ UNCHANGED << move_list, start, op >>
    /\ UNCHANGED << threads, engine >>

\* debug::perft(board, move_gen, depth)
DebugPerft ==
    /\ op.kind = "position"
    /\ \E depth \in 0 .. (MaxDepth - Len(trail)) :
        \E count \in {perft(board, depth)} :
            op' = PerftOp("perft", depth, count)
    /\ UNCHANGED << board, move_list, trail, start >>
    /\ UNCHANGED << threads, engine >>

\* board.perft(depth); the board is back as it was when the call returns
BoardPerft ==
    /\ op.kind = "position"
    /\ \E depth \in 0 .. (MaxDepth - Len(trail)) :
        \E count \in {Board_perft(board, depth)} :
            op' = PerftOp("Board::perft", depth, count)
    /\ UNCHANGED << board, move_list, trail, start >>
    /\ UNCHANGED << threads, engine >>

\* debug::divide(board, move_gen, depth)
DebugDivide ==
    /\ op.kind = "position"
    /\ \E depth \in 0 .. (MaxDepth - Len(trail)) :
        \E divided \in {divide(board, depth)} :
            op' = PerftOp("divide", depth, divided)
    /\ UNCHANGED << board, move_list, trail, start >>
    /\ UNCHANGED << threads, engine >>

\* board.divide(depth); the board is back as it was when the call returns
BoardDivide ==
    /\ op.kind = "position"
    /\ \E depth \in 0 .. (MaxDepth - Len(trail)) :
        \E divided \in {Board_divide(board, depth)} :
            op' = PerftOp("Board::divide", depth, divided)
    /\ UNCHANGED << board, move_list, trail, start >>
    /\ UNCHANGED << threads, engine >>

PerftNext == PerftRecurse \/ DebugPerft \/ BoardPerft \/ DebugDivide \/ BoardDivide

SpecPerft == PerftInit /\ [][PerftNext]_vars

---------------------------------------------------------------------------
(* State machine: Board::perft_parallel, its caller and its worker threads *)

\* positions load_from_fen accepts with few enough root moves to follow
\* every interleaving of their workers
ParallelBoards == {KingCornerBoard}

\* a spawned worker: the Board moved into its closure, where it is, the
\* count its perft call returned
Handle(b, pc, count) == [board |-> b, pc |-> pc, perft |-> count]

\* an update that stores the operand instead of adding it
fetch_add_Stores(value, operand) == operand

\* AtomicU64::fetch_add; the counts added here stay far below 2^64
fetch_add(value, operand) == value + operand

ParallelInit ==
    /\ board \in ParallelBoards
    /\ move_list = << >>
    /\ trail = << >>
    /\ start = board
    /\ op = PerftOp("position", 0, PerftResult("ok", 0))
    /\ NoThreads
    /\ NoSearch

\* perft_parallel up to the loop: the counter is created, the moves are
\* generated, depth 0 and depth 1 return at once
ParallelCall ==
    /\ caller.pc = "idle"
    /\ \E depth \in 0 .. MaxDepth :
        \E pseudo \in {Board_pseudolegal_moves(board)} :
        /\ results' = 0
        /\ caller' =
            IF pseudo.status = "panic"
            THEN Caller("panicked", depth, << >>, 1, 0, 0)
            ELSE IF depth = 0
            THEN Caller("returned", depth, pseudo.moves, 1, 0, 1)
            ELSE IF depth = 1
            THEN Caller("returned", depth, pseudo.moves, 1, 0,
                        Board_perft_depth_1(board, pseudo.moves))
            ELSE Caller(IF pseudo.moves = << >> THEN "join" ELSE "loop",
                        depth, pseudo.moves, 1, 0, 0)
    /\ UNCHANGED << board, move_list, trail, start, op, handles, mutex >>
    /\ UNCHANGED engine

\* one turn of the loop: make the move, and if the mover's king is not
\* attacked clone the board and spawn a worker on the clone; unmake the move
ParallelSpawn ==
    /\ caller.pc = "loop"
    /\ \E m \in {caller.moves[caller.i]} :
       \E made \in {make_move(board, m)} :
       \E unmade \in {unmake_move(made.board, made.md)} :
       \E in_check \in {~is_legal_move(board, m)} :
           IF is_legal_move_panics(board, m) \/ unmade.status # "ok"
           THEN /\ caller' = [caller EXCEPT !.pc = "panicked"]
                /\ UNCHANGED << board, handles >>
           ELSE /\ handles' =
                     IF ~in_check
                     THEN Append(handles, Handle(made.board, "spawned", 0))
                     ELSE handles
                /\ board' = unmade.board
                /\ caller' = [caller EXCEPT
                       !.i = @ + 1,
                       !.pc = IF caller.i = Len(caller.moves) THEN "join" ELSE "loop"]
    /\ UNCHANGED << move_list, trail, start, op, results, mutex >>
    /\ UNCHANGED engine

\* a worker runs board.perft(depth - 1) on its clone
WorkerPerft ==
    /\ \E w \in 1 .. Len(handles) :
        /\ handles[w].pc = "spawned"
        /\ \E perft_below \in {Board_perft(handles[w].board, caller.depth - 1)} :
            handles' = [handles EXCEPT ![w] =
                Handle(@.board,
                       IF perft_below.status = "panic" THEN "panicked" ELSE "computed",
                       perft_below.count)]
    /\ UNCHANGED << board, move_list, trail, start, op, caller, results, mutex >>
    /\ UNCHANGED engine

\* results.lock(): waits until the mutex is free
WorkerLock ==
    /\ mutex = 0
    /\ \E w \in 1 .. Len(handles) :
        /\ handles[w].pc = "computed"
        /\ mutex' = w
        /\ handles' = [handles EXCEPT ![w].pc = "locked"]
    /\ UNCHANGED << board, move_list, trail, start, op, caller, results >>
    /\ UNCHANGED engine

\* results.fetch_add(perft, Ordering::Relaxed), under the lock
WorkerFetchAdd ==
    /\ \E w \in 1 .. Len(handles) :
        /\ handles[w].pc = "locked"
        /\ results' = fetch_add(results, handles[w].perft)
        /\ handles' = [handles EXCEPT ![w].pc = "added"]
    /\ UNCHANGED << board, move_list, trail, start, op, caller, mutex >>
    /\ UNCHANGED engine

\* the closure ends: the guard is dropped and the thread finishes
WorkerExit ==
    /\ \E w \in 1 .. Len(handles) :
        /\ handles[w].pc = "added"
        /\ mutex' = 0
        /\ handles' = [handles EXCEPT ![w].pc = "done"]
    /\ UNCHANGED << board, move_list, trail, start, op, caller, results >>
    /\ UNCHANGED engine

\* handle.join().unwrap() on the next handle: waits for its thread to finish,
\* and panics if the thread did
ParallelJoin ==
    /\ caller.pc = "join"
    /\ caller.joined < Len(handles)
    /\ handles[caller.joined + 1].pc \in {"done", "panicked"}
    /\ caller' =
        IF handles[caller.joined + 1].pc = "done"
        THEN [caller EXCEPT !.joined = @ + 1]
        ELSE [caller EXCEPT !.pc = "panicked"]
    /\ UNCHANGED << board, move_list, trail, start, op, handles, results, mutex >>
    /\ UNCHANGED engine

\* results.lock() and results.load(Ordering::Relaxed): the value returned
ParallelReturn ==
    /\ caller.pc = "join"
    /\ caller.joined = Len(handles)
    /\ mutex = 0
    /\ caller' = [caller EXCEPT !.pc = "returned", !.ret = results]
    /\ UNCHANGED << board, move_list, trail, start, op, handles, results, mutex >>
    /\ UNCHANGED engine

ParallelNext ==
    \/ ParallelCall
    \/ ParallelSpawn
    \/ WorkerPerft
    \/ WorkerLock
    \/ WorkerFetchAdd
    \/ WorkerExit
    \/ ParallelJoin
    \/ ParallelReturn

SpecParallel == ParallelInit /\ [][ParallelNext]_vars

---------------------------------------------------------------------------
(* State machine: FEN texts loaded and written back                        *)

\* 4k3/8/8/8/8/8/8/4K3: kings only, h1 empty
KingsPlacement ==
    << "4", "k", "3", "/", "8", "/", "8", "/", "8", "/", "8", "/", "8",
       "/", "8", "/", "4", "K", "3" >>

\* rnbqkbnr/pppppppp/8/8/8/8/PPPPPPPP/RNBQKBNR: the start position
StartPlacement ==
    << "r", "n", "b", "q", "k", "b", "n", "r", "/", "p", "p", "p", "p",
       "p", "p", "p", "p", "/", "8", "/", "8", "/", "8", "/", "8", "/",
       "P", "P", "P", "P", "P", "P", "P", "P", "/", "R", "N", "B", "Q",
       "K", "B", "N", "R" >>

\* r3k2r/8/8/8/3pP3/8/8/R3K2R: kings and rooks at home, pawns on d4 and e4
CastlePlacement ==
    << "r", "3", "k", "2", "r", "/", "8", "/", "8", "/", "8", "/", "3",
       "p", "P", "3", "/", "8", "/", "8", "/", "R", "3", "K", "2", "R" >>

\* 4k3/8/8/8/8/8/8/7R: no white king
NoWhiteKingPlacement ==
    << "4", "k", "3", "/", "8", "/", "8", "/", "8", "/", "8", "/", "8",
       "/", "8", "/", "7", "R" >>

\* 4k2k/8/8/8/8/8/8/4K2R: two black kings
TwoBlackKingsPlacement ==
    << "4", "k", "2", "k", "/", "8", "/", "8", "/", "8", "/", "8", "/",
       "8", "/", "8", "/", "4", "K", "2", "R" >>

\* 4k3/4R3/8/8/8/8/8/4K2R: a white rook attacks the black king
RookOnKingPlacement ==
    << "4", "k", "3", "/", "4", "R", "3", "/", "8", "/", "8", "/", "8",
       "/", "8", "/", "8", "/", "4", "K", "2", "R" >>

\* 4k3/8/8/8/8/8/8/4K2x: a character that is no piece, digit or '/'
BadCharPlacement ==
    << "4", "k", "3", "/", "8", "/", "8", "/", "8", "/", "8", "/", "8",
       "/", "8", "/", "4", "K", "2", "x" >>

\* 8k/8/8/8/8/8/8/4K2R: a ninth square on the eighth rank
WideRankPlacement ==
    << "8", "k", "/", "8", "/", "8", "/", "8", "/", "8", "/", "8", "/",
       "8", "/", "4", "K", "2", "R" >>

\* the texts tried for each section
PlayablePlacements == {KingsPlacement, StartPlacement, CastlePlacement}
RejectedPlacements ==
    {NoWhiteKingPlacement, TwoBlackKingsPlacement, RookOnKingPlacement,
     BadCharPlacement, WideRankPlacement}
ColorTexts == {<< "w" >>, << "b" >>}
\* the sixteen sets of rights, in the order K, Q, k, q
CastlingTexts ==
    {IF rights = << >> THEN << "-" >> ELSE rights :
        rights \in {SelectSeq(<< "K", "Q", "k", "q" >>, LAMBDA r : r \in kept) :
                       kept \in SUBSET {"K", "Q", "k", "q"}}}
OddCastlingTexts == {<< "q", "K" >>, << "K", "K" >>, << "X" >>, << >>}
EnPassantTexts == {<< "-" >>, << "e", "3" >>, << "e", "6" >>}
OddEnPassantTexts == {<< "E", "3" >>, << "e", "9" >>, << "e" >>, << "i", "1" >>}
HalfmoveTexts == {<< "0" >>, << "1", "2" >>}
OddHalfmoveTexts == {<< "x" >>, << "+", "7" >>, << "0", "0", "7" >>, << >>}
FullmoveTexts == {<< "1" >>, << "3", "0" >>}
OddFullmoveTexts == {<< "0" >>, << "x" >>}

\* sections joined by single spaces
RECURSIVE JoinSections(_)
JoinSections(sections) ==
    IF sections = << >> THEN << >>
    ELSE IF Len(sections) = 1 THEN sections[1]
    ELSE sections[1] \o << " " >> \o JoinSections(Tail(sections))

\* six sections each as FEN writes it
WellFormedSections ==
    {<< p, c, r, e, h, f >> :
        p \in PlayablePlacements, c \in ColorTexts, r \in CastlingTexts,
        e \in EnPassantTexts, h \in HalfmoveTexts, f \in FullmoveTexts}

\* six sections with a placement load_from_fen is to reject
RejectedSections ==
    {<< p, c, r, << "-" >>, << "0" >>, << "1" >> >> :
        p \in RejectedPlacements, c \in ColorTexts \cup {<< "x" >>},
        r \in {<< "-" >>, << "K", "Q", "k", "q" >>}}

\* six sections on the kings-only placement, with one section that is not
\* as FEN writes it
OddSections ==
    {<< KingsPlacement, c, << "-" >>, << "-" >>, << "0" >>, << "1" >> >> :
        c \in {<< "x" >>, << "W" >>, << >>}}
    \cup {<< KingsPlacement, << "w" >>, r, << "-" >>, << "0" >>, << "1" >> >> :
        r \in OddCastlingTexts}
    \cup {<< KingsPlacement, << "w" >>, << "-" >>, e, << "0" >>, << "1" >> >> :
        e \in OddEnPassantTexts}
    \cup {<< KingsPlacement, << "w" >>, << "-" >>, << "-" >>, h, << "1" >> >> :
        h \in OddHalfmoveTexts}
    \cup {<< KingsPlacement, << "w" >>, << "-" >>, << "-" >>, << "0" >>, f >> :
        f \in OddFullmoveTexts}

\* the texts given to load_from_fen: all of the above; the first k sections
\* of the rejected and the odd ones and of some well-formed ones, for every
\* k below six; the empty text; a text of seven sections
FenInputs ==
    {JoinSections(sections) : sections \in WellFormedSections \cup RejectedSections \cup OddSections}
    \cup {JoinSections(SubSeq(sections, 1, k)) :
            sections \in RejectedSections \cup OddSections
                \cup {w \in WellFormedSections : w[5] = << "0" >> /\ w[6] = << "1" >>},
            k \in 0 .. 5}
    \cup {JoinSections(<< StartPlacement, << "w" >>, << "K", "Q", "k", "q" >>, << "-" >>,
                          << "0" >>, << "1" >>, << "x" >> >>)}

\* what the last call was given and what it returned: for load_from_fen its
\* status; for from_fen also the Board or NoBoard; for fen the text
FenOp(kind, fen_text, status, returned) ==
    [kind |-> kind, fen |-> fen_text, status |-> status, returned |-> returned]

FenInit ==
    /\ board = Board_new
    /\ move_list = << >>
    /\ trail = << >>
    /\ start = board
    /\ op = FenOp("new", << >>, "ok", << >>)
    /\ NoThreads
    /\ NoSearch

\* board.load_from_fen(fen, move_gen) on a Board from Board::new()
LoadFromFen ==
    /\ op.kind = "new"
    /\ \E fen_text \in FenInputs :
        \E loaded \in {load_from_fen(board, fen_text)} :
            /\ board' = loaded.board
            /\ op' = FenOp("load_from_fen", fen_text, loaded.status, << >>)
    /\ UNCHANGED << move_list, trail, start >>
    /\ UNCHANGED << threads, engine >>

\* Board::from_fen(fen, move_gen)
FromFen ==
    /\ op.kind = "new"
    /\ \E fen_text \in FenInputs :
        \E made \in {from_fen(fen_text)} :
            op' = FenOp("from_fen", fen_text, made.status, made.board)
    /\ UNCHANGED << board, move_list, trail, start >>
    /\ UNCHANGED << threads, engine >>

\* board.fen() on a Board that load_from_fen has loaded
WriteFen ==
    /\ op.kind = "load_from_fen"
    /\ op.status = "ok"
    /\ \E written \in {fen(board)} :
        op' = FenOp("fen", op.fen, written.status, written.text)
    /\ UNCHANGED << board, move_list, trail, start >>
    /\ UNCHANGED << threads, engine >>

\* the texts of a later `load fen`: the text that loaded the Board cut after
\* each of its sections, the same text with each section in turn replaced by
\* one that is no FEN, and the kings-only position
SecondLoadInputs(fen_text) ==
    {JoinSections(SubSeq(split(fen_text), 1, k)) : k \in 1 .. 5}
    \cup {JoinSections([split(fen_text) EXCEPT ![k] = << "x" >>]) : k \in 1 .. 6}
    \cup {JoinSections(<< KingsPlacement, << "b" >>, << "-" >>, << "-" >>, << "0" >>, << "1" >> >>)}

\* board.load_from_fen(fen) on a Board that an earlier load_from_fen loaded,
\* as the `load fen` command does; a ParseFenError is printed and the Board
\* is used as the call left it. op.returned keeps the Board before the call.
LoadAgain ==
    /\ op.kind = "load_from_fen"
    /\ op.status = "ok"
    /\ Len(split(op.fen)) = 6
    /\ \E fen_text \in SecondLoadInputs(op.fen) :
        \E loaded \in {load_from_fen(board, fen_text)} :
            /\ board' = loaded.board
            /\ op' = FenOp("load_again", fen_text, loaded.status, board)
    /\ move_list' = << >>
    /\ UNCHANGED << trail, start >>
    /\ UNCHANGED << threads, engine >>

FenNext == LoadFromFen \/ FromFen \/ WriteFen \/ LoadAgain

SpecFen == FenInit /\ [][FenNext]_vars

---------------------------------------------------------------------------
(* State machine: moves packed, compared, written as text and parsed       *)

\* the characters the square texts are drawn from
SquareTextChars ==
    {LowerChars[i] : i \in 1 .. 9} \cup {"A", "H", "I", "-"}
        \cup {DigitChars[i] : i \in 1 .. 10}

\* every text of two of them, the 64 square names among them; shorter and
\* longer ones
SquareTexts ==
    {<< first, second >> : first \in SquareTextChars, second \in SquareTextChars}
        \cup {<< >>, << "e" >>, << "e", "4", "x" >>}

\* move texts: well-formed ones, short ones, bad squares, fifth characters
\* of every kind
MoveTexts ==
    {<< "e", "2", "e", "4" >>, << "E", "2", "E", "4" >>, << >>, << "e" >>,
     << "e", "2" >>, << "e", "2", "e" >>, << "z", "9" >>, << "z", "9", "e", "4" >>,
     << "e", "2", "z", "9" >>, << "i", "1", "a", "1" >>, << "e", "0", "e", "4" >>,
     << "e", "7", "e", "8", "q", "q" >>}
        \cup {<< "e", "7", "e", "8", fifth >> :
                fifth \in {"n", "b", "r", "q", "k", "p", "Q", "N", "x", "z", " ", "1", "-"}}

\* the squares the compared moves are made of
CmpSquares == {A1, B1, A8, H8}

CmpMoves ==
    {Move_new_with_possible_promotion(from, to, promotion) :
        from \in CmpSquares, to \in CmpSquares, promotion \in PromotionPieces \cup {None}}

\* the last call: what it was given, how it ended, what it returned
TextOp(kind, given, status, returned) ==
    [kind |-> kind, given |-> given, status |-> status, returned |-> returned]

\* Move::new(from, to)
MoveNew ==
    /\ op.kind = "new"
    /\ \E from \in Squares, to \in Squares :
        op' = TextOp("Move::new", Move(from, to, None), "ok", Move_new(from, to))
    /\ UNCHANGED << board, move_list, trail, start >>
    /\ UNCHANGED << threads, engine >>

\* Move::new_with_promotion(from, to, promotion)
MoveNewWithPromotion ==
    /\ op.kind = "new"
    /\ \E from \in Squares, to \in Squares, promotion \in PromotionPieces \cup {King, Pawn} :
        op' = TextOp("Move::new_with_promotion", Move(from, to, promotion), "ok",
                     Move_new_with_promotion(from, to, promotion))
    /\ UNCHANGED << board, move_list, trail, start >>
    /\ UNCHANGED << threads, engine >>

\* a.cmp(&b), a < b, a <= b, a > b, a >= b and a == b on two moves
MoveCmp ==
    /\ op.kind = "new"
    /\ \E a \in CmpMoves, b \in CmpMoves :
        op' = TextOp("Move::cmp", << a, b >>, "ok",
                     [cmp |-> Move_cmp(Unpacked(a), Unpacked(b)),
                      lt |-> Move_lt(Unpacked(a), Unpacked(b)),
                      le |-> Move_le(Unpacked(a), Unpacked(b)),
                      gt |-> Move_gt(Unpacked(a), Unpacked(b)),
                      ge |-> Move_ge(Unpacked(a), Unpacked(b)),
                      eq |-> (a = b)])
    /\ UNCHANGED << board, move_list, trail, start >>
    /\ UNCHANGED << threads, engine >>

\* move.to_string() of a Move just constructed
MoveDisplay ==
    /\ op.kind \in {"Move::new", "Move::new_with_promotion"}
    /\ op' = TextOp("Move::fmt", op.returned, "ok", Move_fmt(op.returned))
    /\ UNCHANGED << board, move_list, trail, start >>
    /\ UNCHANGED << threads, engine >>

\* Move::try_from of the text Display wrote, in either build
MoveParseDisplayed ==
    /\ op.kind = "Move::fmt"
    /\ \E overflow_checks \in BOOLEAN :
        \E parsed \in {Move_try_from(op.returned, overflow_checks)} :
            op' = TextOp("Move::try_from", [text |-> op.returned, displayed |-> << op.given >>],
                         parsed.status, parsed.move)
    /\ UNCHANGED << board, move_list, trail, start >>
    /\ UNCHANGED << threads, engine >>

\* Move::try_from of a text from outside, in either build
MoveTryFrom ==
    /\ op.kind = "new"
    /\ \E value \in MoveTexts, overflow_checks \in BOOLEAN :
        \E parsed \in {Move_try_from(value, overflow_checks)} :
            op' = TextOp("Move::try_from", [text |-> value, displayed |-> << >>],
                         parsed.status, parsed.move)
    /\ UNCHANGED << board, move_list, trail, start >>
    /\ UNCHANGED << threads, engine >>

\* square.to_string()
SquareDisplay ==
    /\ op.kind = "new"
    /\ \E square \in Squares :
        op' = TextOp("Square::fmt", square, "ok", Square_fmt(square))
    /\ UNCHANGED << board, move_list, trail, start >>
    /\ UNCHANGED << threads, engine >>

\* Square::try_from of the text Display wrote, in either build
SquareParseDisplayed ==
    /\ op.kind = "Square::fmt"
    /\ \E overflow_checks \in BOOLEAN :
        \E parsed \in {Square_try_from_str(op.returned, overflow_checks)} :
            op' = TextOp("Square::try_from", [text |-> op.returned, displayed |-> << op.given >>],
                         IF parsed = "panic" THEN "panic"
                         ELSE IF parsed = << >> THEN "Err" ELSE "ok",
                         parsed)
    /\ UNCHANGED << board, move_list, trail, start >>
    /\ UNCHANGED << threads, engine >>

\* Square::try_from of a text from outside, in either build
SquareTryFrom ==
    /\ op.kind = "new"
    /\ \E value \in SquareTexts, overflow_checks \in BOOLEAN :
        \E parsed \in {Square_try_from_str(value, overflow_checks)} :
            op' = TextOp("Square::try_from", [text |-> value, displayed |-> << >>],
                         IF parsed = "panic" THEN "panic"
                         ELSE IF parsed = << >> THEN "Err" ELSE "ok",
                         parsed)
    /\ UNCHANGED << board, move_list, trail, start >>
    /\ UNCHANGED << threads, engine >>

MoveNext ==
    \/ MoveNew
    \/ MoveNewWithPromotion
    \/ MoveCmp
    \/ MoveDisplay
    \/ MoveParseDisplayed
    \/ MoveTryFrom
    \/ SquareDisplay
    \/ SquareParseDisplayed
    \/ SquareTryFrom

SpecMove == FenInit /\ [][MoveNext]_vars

\* the three parsers of external text together
SpecText == FenInit /\ [][FenNext \/ MoveNext]_vars

---------------------------------------------------------------------------
(* State machine: play by generated legal moves; the Board written as FEN  *)
(* and loaded again                                                        *)

\* positions load_from_fen accepts
\* A position load_from_fen accepts: Black still has the kingside right, and
\* the black pawn in front of its king is held up by a white pawn
\* 4k2r/4p3/8/4P3/8/8/8/4K3 w k - 0 1
BlockedPawnBoard ==
    MkBoard(Bitboards(<< {}, {}, {},
               {}, {4}, {36},
               {}, {}, {63},
               {}, {60}, {52} >>),
            White, 4, 0, 1)

PlayBoards ==
    {StartBoard, CornerBoard, EnPassantBoard, PromotionBoard, BlockedPawnBoard}

\* the moves MoveGen::legal_moves leaves in the Vec, none when it panics
MoveGenLegalMoves(generated) ==
    IF generated.status = "ok" THEN Range(generated.moves) ELSE {}

\* the moves Board::perft steps through: the pseudo-legal moves of the
\* Board's own generator that is_legal_move lets pass
BoardLegalMoves(board_now, pseudo) ==
    IF pseudo.status # "ok" THEN {}
    ELSE {m \in Range(pseudo.moves) :
            ~is_legal_move_panics(board_now, m) /\ is_legal_move(board_now, m)}

\* the last step: a move made, or the text fen() wrote with the outcome of
\* loading it into a new Board
PlayOp(kind, move, text, status, returned) ==
    [kind |-> kind, move |-> move, text |-> text, status |-> status, returned |-> returned]

PlayInit ==
    /\ board \in PlayBoards
    /\ move_list = << >>
    /\ trail = << >>
    /\ start = board
    /\ op = PlayOp("position", Move(0, 0, None), << >>, "ok", NoBoard)
    /\ NoThreads
    /\ NoSearch

\* board.make_move(m) for a move m that a legal-move generator returned
PlayLegalMove ==
    /\ op.kind \in {"position", "move"}
    /\ Len(trail) < MaxPly
    /\ \E m \in MoveGenLegalMoves(legal_moves(board))
                    \cup BoardLegalMoves(board, Board_pseudolegal_moves(board)) :
        \E made \in {make_move(board, m)} :
            /\ made.status = "ok"
            /\ board' = made.board
            /\ move_list' = Append(move_list, made.md)
            /\ trail' = Append(trail, Snapshot(board, move_list))
            /\ op' = PlayOp("move", m, << >>, "ok", NoBoard)
    /\ UNCHANGED start
    /\ UNCHANGED << threads, engine >>

\* Board::from_fen(&board.fen(), move_gen)
FenReload ==
    /\ op.kind \in {"position", "move"}
    /\ \E written \in {fen(board)} :
        \E loaded \in {IF written.status = "ok" THEN from_fen(written.text)
                       ELSE LoadResult("panic", NoBoard)} :
            op' = PlayOp("reload", op.move, written.text, loaded.status, loaded.board)
    /\ UNCHANGED << board, move_list, trail, start >>
    /\ UNCHANGED << threads, engine >>

\* the `rm <square>` command of the command-line front end: every bitboard
\* loses the square; here the square the last move arrived on
CliRemove ==
    /\ op.kind = "move"
    /\ \E square \in {op.move.to} :
        board' = [board EXCEPT !.pieces = [i \in DOMAIN @ |-> @[i] \ {square}]]
    /\ op' = PlayOp("rm", op.move, << >>, "ok", NoBoard)
    /\ UNCHANGED << move_list, trail, start >>
    /\ UNCHANGED << threads, engine >>

\* Board::unmake_move() of the Board that keeps its own move history, as the
\* `undo` command calls it: the MoveData is popped first; the rest is
\* unmake_move with it
Board_unmake_move(board_now, history) ==
    IF history = << >>
    THEN [status |-> "err", board |-> board_now, move_list |-> history]
    ELSE [status |-> unmake_move(board_now, history[Len(history)]).status,
          board |-> unmake_move(board_now, history[Len(history)]).board,
          move_list |-> SubSeq(history, 1, Len(history) - 1)]

\* `undo`: board.unmake_move(); an error is printed and the session goes on
CliUndo ==
    /\ op.kind \in {"position", "move", "rm"}
    /\ \E unmade \in {Board_unmake_move(board, move_list)} :
        /\ board' = unmade.board
        /\ move_list' = unmade.move_list
        /\ op' = PlayOp("undo", op.move, << >>, unmade.status, Snapshot(board, move_list))
    /\ UNCHANGED << trail, start >>
    /\ UNCHANGED << threads, engine >>

\* board.unmake_move(move_data) with the MoveData the caller kept from the
\* last make_move
UnmakeMoveData ==
    /\ op.kind \in {"move", "rm"}
    /\ \E unmade \in {unmake_move(board, move_list[Len(move_list)])} :
        /\ board' = unmade.board
        /\ op' = PlayOp("unmake", op.move, << >>, unmade.status, Snapshot(board, move_list))
    /\ UNCHANGED << move_list, trail, start >>
    /\ UNCHANGED << threads, engine >>

PlayNext == PlayLegalMove \/ FenReload \/ CliRemove \/ CliUndo \/ UnmakeMoveData

SpecPlay == PlayInit /\ [][PlayNext]_vars

---------------------------------------------------------------------------
(* The engine's search: evaluate, and the state of a SearchManager with    *)
(* the threads it spawns                                                   *)

PIECE_SCORES == << 320, 350, 500, 900, 100, 20000 >>

PIECE_SQUARE_TABLES ==
    <<
    << -50, -40, -30, -30, -30, -30, -40, -50,
        -40, -20, 0, 0, 0, 0, -20, -40,
        -30, 0, 10, 15, 15, 10, 0, -30,
        -30, 5, 15, 20, 20, 15, 5, -30,
        -30, 0, 15, 20, 20, 15, 0, -30,
        -30, 5, 10, 15, 15, 10, 5, -30,
        -40, -20, 0, 5, 5, 0, -20, -40,
        -50, -40, -30, -30, -30, -30, -40, -50 >>,
    << -20, -10, -10, -10, -10, -10, -10, -20,
        -10, 0, 0, 0, 0, 0, 0, -10,
        -10, 0, 5, 10, 10, 5, 0, -10,
        -10, 5, 5, 10, 10, 5, 5, -10,
        -10, 0, 10, 10, 10, 10, 0, -10,
        -10, 10, 10, 10, 10, 10, 10, -10,
        -10, 5, 0, 0, 0, 0, 5, -10,
        -20, -10, -10, -10, -10, -10, -10, -20 >>,
    << 0, 0, 0, 0, 0, 0, 0, 0,
        5, 10, 10, 10, 10, 10, 10, 5,
        -5, 0, 0, 0, 0, 0, 0, -5,
        -5, 0, 0, 0, 0, 0, 0, -5,
        -5, 0, 0, 0, 0, 0, 0, -5,
        -5, 0, 0, 0, 0, 0, 0, -5,
        -5, 0, 0, 0, 0, 0, 0, -5,
        0, 0, 0, 5, 5, 0, 0, 0 >>,
    << -20, -10, -10, -5, -5, -10, -10, -20,
        -10, 0, 0, 0, 0, 0, 0, -10,
        -10, 0, 5, 5, 5, 5, 0, -10,
        -5, 0, 5, 5, 5, 5, 0, -5,
        0, 0, 5, 5, 5, 5, 0, -5,
        -10, 5, 5, 5, 5, 5, 0, -10,
        -10, 0, 5, 0, 0, 0, 0, -10,
        -20, -10, -10, -5, -5, -10, -10, -20 >>,
    << -30, -40, -40, -50, -50, -40, -40, -30,
        -30, -40, -40, -50, -50, -40, -40, -30,
        -30, -40, -40, -50, -50, -40, -40, -30,
        -30, -40, -40, -50, -50, -40, -40, -30,
        -20, -30, -30, -40, -40, -30, -30, -20,
        -10, -20, -20, -20, -20, -20, -20, -10,
        20, 20, 0, 0, 0, 0, 20, 20,
        20, 30, 10, 0, 0, 10, 30, 20 >>,
    << 0, 0, 0, 0, 0, 0, 0, 0,
        50, 50, 50, 50, 50, 50, 50, 50,
        10, 10, 20, 30, 30, 20, 10, 10,
        5, 5, 10, 25, 25, 10, 5, 5,
        0, 0, 0, 20, 20, 0, 0, 0,
        5, -5, -10, 0, 0, -10, -5, 5,
        5, 10, 10, -20, -20, 10, 10, 5,
        0, 0, 0, 0, 0, 0, 0, 0 >>
    >>

\* one piece's term of the score: its value and its table entry, the table
\* read from the far end for White, negated for Black
adjusted_score(piece, color, i) ==
    (PIECE_SCORES[piece + 1]
        + PIECE_SQUARE_TABLES[piece + 1][(IF color = White THEN 63 - i ELSE i) + 1])
    * direction(color)

RECURSIVE evaluate_bb(_, _, _)
evaluate_bb(piece, color, bb) ==
    IF bb = {} THEN 0
    ELSE LET i == trailing_zeros(bb)
         IN  adjusted_score(piece, color, i) + evaluate_bb(piece, color, bb \ {i})

RECURSIVE evaluate_loop(_, _)
evaluate_loop(board_now, index) ==
    IF index > 11 THEN 0
    ELSE evaluate_bb(index \div 2, index % 2,
                     bitboard(board_now, index \div 2, index % 2))
         + evaluate_loop(board_now, index + 1)

evaluate(board_now) == evaluate_loop(board_now, 0)

\* the searches a SearchManager is followed through, each for one iteration
\* of start_iterative_deepening, and the iterations a search alone is
\* followed through
MaxSearches == 2
MaxIterations == 2

\* A position load_from_fen accepts: the white king has one move, a1b1, and
\* the black king three replies to it
\* 8/8/8/8/8/k7/8/K7 w - - 0 1
LoneKingsBoard ==
    MkBoard(Bitboards(<< {}, {}, {},
               {}, {0}, {},
               {}, {}, {},
               {}, {16}, {} >>),
            White, 0, 0, 1)

\* Board::default(), which the engine's `go` searches, and a position whose
\* search runs
SearchBoards == {StartBoard, LoneKingsBoard}

\* the driver: the `go` commands it has yet to send, and the iterations each
\* search is followed through
SearchOp(go, iterations) == [kind |-> "search", go |-> go, iterations |-> iterations]

MIN_SCORE == -999999
MAX_SCORE == 999999

\* start_iterative_deepening runs while i < 254
ITERATION_LIMIT == 254

\* one call of alpha_beta: its arguments, the moves generated, the index of
\* the move made, its MoveData, and the board as it was on entry
Frame(ply_from_root, alpha, beta, depth, moves, k, move_data, entry) ==
    [ply_from_root |-> ply_from_root, alpha |-> alpha, beta |-> beta,
     depth |-> depth, moves |-> moves, k |-> k, move_data |-> move_data,
     entry |-> entry]

\* the last return of alpha_beta: the board on entry to that call, and the
\* path it left by
Left(entry, path) == [entry |-> entry, path |-> path]

\* Search::new and Search::start: the thread is about to make the first
\* call alpha_beta(0, -999999, 999999, 1)
Search_new(position) ==
    [board |-> position,
     best_move_so_far |-> Move(0, 0, None),
     best_eval_so_far |-> 0,
     i |-> 1,
     pc |-> "alpha_beta",
     stack |-> << Frame(0, MIN_SCORE, MAX_SCORE, 1, << >>, 0, NoMoveData, position) >>,
     ret |-> 0,
     left |-> Left(position, "none"),
     stopped |-> FALSE]

\* the timer thread of one timed start_search: where it is, the messages
\* sent on its channel and not received, the search it was created for,
\* whether it stored or printed when that search was no longer the current one
Canceller(pc, rx, search, stale) ==
    [pc |-> pc, rx |-> rx, search |-> search, stale |-> stale]

\* tx.send(true) on the manager's Sender, if it holds one
send_dont_cancel(timers, canceller) ==
    IF canceller = 0 THEN timers
    ELSE [timers EXCEPT ![canceller].rx = Append(@, TRUE)]

\* cancelled.store(true): every search still running has been told to stop
told_to_stop(threads_now) ==
    [s \in 1 .. Len(threads_now) |->
        IF threads_now[s].pc \in {"done", "panicked"} THEN threads_now[s]
        ELSE [threads_now[s] EXCEPT !.stopped = TRUE]]

\* `return value` from the call on top of the stack
Return(thread, value, path) ==
    [thread EXCEPT
        !.stack = SubSeq(@, 1, Len(@) - 1),
        !.ret = value,
        !.left = Left(thread.stack[Len(thread.stack)].entry, path),
        !.pc = IF Len(thread.stack) = 1 THEN "iterated" ELSE "returned"]

\* the body of the loop up to the recursive call: make_move(mv).unwrap() for
\* the k-th move and alpha_beta(ply_from_root + 1, -beta, -alpha, depth - 1)
Descend(thread, alpha, k) ==
    LET top == thread.stack[Len(thread.stack)]
        made == make_move(thread.board, top.moves[k])
    IN  IF made.status # "ok" THEN [thread EXCEPT !.pc = "panicked"]
        ELSE [thread EXCEPT
                !.board = made.board,
                !.pc = "alpha_beta",
                !.stack = Append(
                    [@ EXCEPT ![Len(@)] =
                        [top EXCEPT !.alpha = alpha, !.k = k, !.move_data = made.md]],
                    Frame(top.ply_from_root + 1, 0 - top.beta, 0 - alpha,
                          top.depth - 1, << >>, 0, NoMoveData, made.board))]

\* alpha_beta from its entry to the first recursive call or to its return
alpha_beta_enter(thread, generated) ==
    LET top == thread.stack[Len(thread.stack)] IN
    IF cancelled THEN Return(thread, 0, "cancelled")
    ELSE IF top.depth = 0 THEN Return(thread, evaluate(thread.board), "leaf")
    ELSE IF generated.status # "ok" THEN [thread EXCEPT !.pc = "panicked"]
    ELSE IF generated.moves = << >> THEN Return(thread, top.alpha, "exhausted")
    ELSE Descend([thread EXCEPT !.stack[Len(thread.stack)].moves = generated.moves],
                 top.alpha, 1)

\* the moves of the call on top of the stack, when it gets as far as
\* generating them
generated_moves(thread) ==
    IF cancelled \/ thread.stack[Len(thread.stack)].depth = 0
    THEN GenResult("ok", << >>)
    ELSE legal_moves(thread.board)

\* a search that leaves the loop on cancellation before it takes the move back
board_unmade_UnlessCancelled(thread, unmade) ==
    IF cancelled THEN thread ELSE [thread EXCEPT !.board = unmade.board]

\* self.board.unmake_move(move_data).unwrap() on the line after the
\* recursive call
board_unmade(thread, unmade) == [thread EXCEPT !.board = unmade.board]

\* alpha_beta from the return of a recursive call to the next one or to its
\* own return
alpha_beta_resume(thread, unmade) ==
    LET top == thread.stack[Len(thread.stack)]
        score == 0 - thread.ret
        mv == top.moves[top.k]
        improved == score > top.alpha
        restored == board_unmade(thread, unmade)
        updated ==
            IF improved /\ top.ply_from_root = 0
            THEN [restored EXCEPT !.best_move_so_far = mv, !.best_eval_so_far = score]
            ELSE restored
        alpha == IF improved THEN score ELSE top.alpha
    IN  IF unmade.status # "ok" THEN [thread EXCEPT !.pc = "panicked"]
        ELSE IF cancelled THEN Return(restored, top.alpha, "break")
        ELSE IF score >= top.beta THEN Return(restored, top.beta, "cutoff")
        ELSE IF top.k = Len(top.moves) THEN Return(updated, alpha, "exhausted")
        ELSE Descend(updated, alpha, top.k + 1)

SearchInit ==
    /\ board \in SearchBoards
    /\ move_list = << >>
    /\ trail = << >>
    /\ start = board
    /\ op = SearchOp(MaxSearches, 1)
    /\ NoThreads
    /\ NoSearch

\* one `go` on a position whose search meets every way out of alpha_beta
AlphaBetaInit ==
    /\ board = KingCornerBoard
    /\ move_list = << >>
    /\ trail = << >>
    /\ start = board
    /\ op = SearchOp(1, MaxIterations)
    /\ NoThreads
    /\ NoSearch

\* `go`: SearchManager::start_search(board), with settings.movetime as its
\* caller left it
StartSearch ==
    /\ op.go > 0
    /\ op' = SearchOp(op.go - 1, op.iterations)
    /\ \E movetime \in {"Infinite", "Millis"} :
       \E position \in {board} :
        /\ cancelled' = FALSE
        /\ best_move' = Move(0, 0, None)
        /\ best_eval' = 0
        /\ cancellers' =
            IF movetime = "Millis"
            THEN Append(send_dont_cancel(cancellers, manager.canceller),
                        Canceller("sleep", << >>, Len(searches) + 1, FALSE))
            ELSE cancellers
        /\ searches' = Append(searches, Search_new(position))
        /\ manager' =
            [canceller |-> IF movetime = "Millis" THEN Len(cancellers) + 1 ELSE 0,
             running |-> TRUE,
             movetime |-> movetime,
             searches |-> manager.searches + 1,
             current |-> Len(searches) + 1]
    /\ UNCHANGED << board, move_list, trail, start >>
    /\ UNCHANGED threads

\* SearchManager::stop
Stop ==
    /\ cancellers' = send_dont_cancel(cancellers, manager.canceller)
    /\ cancelled' = TRUE
    /\ searches' = told_to_stop(searches)
    /\ manager' = [manager EXCEPT
            !.canceller = 0, !.running = FALSE, !.searches = 0, !.current = 0]
    /\ UNCHANGED << best_move, best_eval >>
    /\ UNCHANGED << board, move_list, trail, start, op >>
    /\ UNCHANGED threads

\* the timer thread wakes from thread::sleep and looks at its channel:
\* rx.try_recv() is Err both when the channel is empty and when its Sender
\* was dropped
CancellerWake ==
    /\ \E t \in 1 .. Len(cancellers) :
        /\ cancellers[t].pc = "sleep"
        /\ cancellers' = [cancellers EXCEPT ![t] =
            IF @.rx # << >>
            THEN [@ EXCEPT !.rx = Tail(@), !.pc = IF Head(cancellers[t].rx) THEN "returned" ELSE "store"]
            ELSE [@ EXCEPT !.pc = "store"]]
    /\ UNCHANGED << manager, cancelled, best_move, best_eval, searches >>
    /\ UNCHANGED << board, move_list, trail, start, op >>
    /\ UNCHANGED threads

\* cancelled.lock().unwrap().store(true, Ordering::Relaxed) in the timer
CancellerStore ==
    /\ \E t \in 1 .. Len(cancellers) :
        /\ cancellers[t].pc = "store"
        /\ cancelled' = TRUE
        /\ searches' = told_to_stop(searches)
        /\ cancellers' = [cancellers EXCEPT ![t] =
            [@ EXCEPT !.pc = "print", !.stale = (manager.current # cancellers[t].search)]]
    /\ UNCHANGED << manager, best_move, best_eval >>
    /\ UNCHANGED << board, move_list, trail, start, op >>
    /\ UNCHANGED threads

\* println!("bestmove {}", *best_move.lock().unwrap()) in the timer
CancellerPrint ==
    /\ \E t \in 1 .. Len(cancellers) :
        /\ cancellers[t].pc = "print"
        /\ cancellers' = [cancellers EXCEPT ![t] =
            [@ EXCEPT !.pc = "printed", !.stale = (@ \/ manager.current # cancellers[t].search)]]
    /\ UNCHANGED << manager, cancelled, best_move, best_eval, searches >>
    /\ UNCHANGED << board, move_list, trail, start, op >>
    /\ UNCHANGED threads

\* a search thread enters alpha_beta and runs to its next read of the flag
AlphaBetaEnter ==
    /\ \E s \in 1 .. Len(searches) :
        /\ searches[s].pc = "alpha_beta"
        /\ searches[s].i <= op.iterations
        /\ \E generated \in {generated_moves(searches[s])} :
            searches' = [searches EXCEPT ![s] = alpha_beta_enter(@, generated)]
    /\ UNCHANGED << manager, cancelled, best_move, best_eval, cancellers >>
    /\ UNCHANGED << board, move_list, trail, start, op >>
    /\ UNCHANGED threads

\* a recursive call has returned: unmake_move(move_data).unwrap(), the read
\* of the flag, and the rest of the loop
AlphaBetaResume ==
    /\ \E s \in 1 .. Len(searches) :
        /\ searches[s].pc = "returned"
        /\ \E unmade \in {unmake_move(searches[s].board,
                            searches[s].stack[Len(searches[s].stack)].move_data)} :
            searches' = [searches EXCEPT ![s] = alpha_beta_resume(@, unmade)]
    /\ UNCHANGED << manager, cancelled, best_move, best_eval, cancellers >>
    /\ UNCHANGED << board, move_list, trail, start, op >>
    /\ UNCHANGED threads

\* start_iterative_deepening after alpha_beta returned: break if the flag is set
IterationCheck ==
    /\ \E s \in 1 .. Len(searches) :
        /\ searches[s].pc = "iterated"
        /\ searches' = [searches EXCEPT ![s] =
            [@ EXCEPT !.pc = IF cancelled THEN "done" ELSE "publish_move"]]
    /\ UNCHANGED << manager, cancelled, best_move, best_eval, cancellers >>
    /\ UNCHANGED << board, move_list, trail, start, op >>
    /\ UNCHANGED threads

\* *self.best_move.lock().unwrap() = self.best_move_so_far
PublishMove ==
    /\ \E s \in 1 .. Len(searches) :
        /\ searches[s].pc = "publish_move"
        /\ best_move' = searches[s].best_move_so_far
        /\ searches' = [searches EXCEPT ![s].pc = "publish_eval"]
    /\ UNCHANGED << manager, cancelled, best_eval, cancellers >>
    /\ UNCHANGED << board, move_list, trail, start, op >>
    /\ UNCHANGED threads

\* self.best_eval.lock().unwrap().store(self.best_eval_so_far), i += 1, and
\* the next turn of the while loop up to its call of alpha_beta
PublishEval ==
    /\ \E s \in 1 .. Len(searches) :
        /\ searches[s].pc = "publish_eval"
        /\ best_eval' = searches[s].best_eval_so_far
        /\ searches' = [searches EXCEPT ![s] =
            IF @.i + 1 < ITERATION_LIMIT
            THEN [@ EXCEPT
                    !.i = @ + 1,
                    !.pc = "alpha_beta",
                    !.stack = << Frame(0, MIN_SCORE, MAX_SCORE, searches[s].i + 1,
                                       << >>, 0, NoMoveData, searches[s].board) >>]
            ELSE [@ EXCEPT !.i = @ + 1, !.pc = "done"]]
    /\ UNCHANGED << manager, cancelled, best_move, cancellers >>
    /\ UNCHANGED << board, move_list, trail, start, op >>
    /\ UNCHANGED threads

SearchNext ==
    \/ StartSearch
    \/ Stop
    \/ CancellerWake
    \/ CancellerStore
    \/ CancellerPrint
    \/ AlphaBetaEnter
    \/ AlphaBetaResume
    \/ IterationCheck
    \/ PublishMove
    \/ PublishEval

SpecSearch == SearchInit /\ [][SearchNext]_vars

SpecAlphaBeta == AlphaBetaInit /\ [][SearchNext]_vars

---------------------------------------------------------------------------
(* State machine: the blocker subsets of a mask and the ray-cast moves of  *)
(* a slider, as make_table calls them                                      *)

\* u64::wrapping_sub on two bitboards, bit by bit from bit `i` with the
\* borrow so far; the borrow out of bit 63 is dropped
RECURSIVE wrapping_sub_from(_, _, _, _)
wrapping_sub_from(a, b, i, borrow) ==
    IF i > 63 THEN {}
    ELSE LET bit == ((i \in a) # (i \in b)) # borrow
             borrow_out ==
                 \/ (i \notin a) /\ (i \in b)
                 \/ ((i \in a) = (i \in b)) /\ borrow
         IN  (IF bit THEN {i} ELSE {}) \cup wrapping_sub_from(a, b, i + 1, borrow_out)

wrapping_sub(a, b) == wrapping_sub_from(a, b, 0, FALSE)

\* a step that forgets to mask the difference
carry_rippler_Unmasked(subset, set) == wrapping_sub(subset, set)

\* subset.wrapping_sub(set) & set
carry_rippler(subset, set) == wrapping_sub(subset, set) \cap set

\* what Bitboard::subsets gives: the Vec, or no return
SubsetsResult(status, subsets) == [status |-> status, subsets |-> subsets]

\* 2^n
RECURSIVE Pow2(_)
Pow2(n) == IF n = 0 THEN 1 ELSE 2 * Pow2(n - 1)

\* the loop of Bitboard::subsets from its push on; every value of `subset`
\* is a subset of `set` or the loop already left the mask, so a loop that
\* has pushed more than 2^64 values, or more values than `set` has subsets
\* while staying inside it, repeats one and never ends
RECURSIVE subsets_loop(_, _, _)
subsets_loop(set, subset, pushed) ==
    LET subsets == Append(pushed, subset)
        next == carry_rippler(subset, set)
    IN  IF next = {} THEN SubsetsResult("ok", subsets)
        ELSE IF Len(subsets) > Pow2(Cardinality(set)) THEN SubsetsResult("loops", subsets)
        ELSE subsets_loop(set, next, subsets)

Bitboard_subsets(set) == subsets_loop(set, {}, << >>)

\* masks with bits at both ends of the u64, and the squares between b1 and
\* h7, which block a bishop on b1
SubsetMasks == (SUBSET {0, 1, 9, 62, 63}) \cup {{10, 19, 28, 37, 46}}

\* blockers: none, the pieces of the start position, the edge of the board,
\* each with one more square
BlockerBases ==
    {{}, (0 .. 15) \cup (48 .. 63), {sq \in Squares : rank(sq) \in {0, 7} \/ file(sq) \in {0, 7}}}

TableOp(kind, slider, square, given, returned) ==
    [kind |-> kind, slider |-> slider, square |-> square, given |-> given,
     returned |-> returned]

TableInit ==
    /\ board = StartBoard
    /\ move_list = << >>
    /\ trail = << >>
    /\ start = board
    /\ op = TableOp("new", "Rook", 0, {}, {})
    /\ NoThreads
    /\ NoSearch

\* mask.subsets()
BitboardSubsets ==
    /\ op.kind = "new"
    /\ \E mask \in SubsetMasks :
        op' = TableOp("subsets", "Rook", 0, mask, Bitboard_subsets(mask))
    /\ UNCHANGED << board, move_list, trail, start >>
    /\ UNCHANGED << threads, engine >>

\* slider.moves(square, blockers)
SliderMoves ==
    /\ op.kind = "new"
    /\ \E slider \in {"Rook", "Bishop"} :
       \E square \in Squares :
       \E base \in BlockerBases :
       \E extra \in Squares :
        op' = TableOp("moves", slider, square, base \cup {extra},
                      Slider_moves(IF slider = "Rook" THEN ROOK_MOVE_OFFSETS
                                   ELSE BISHOP_MOVE_OFFSETS,
                                   square, base \cup {extra}))
    /\ UNCHANGED << board, move_list, trail, start >>
    /\ UNCHANGED << threads, engine >>

TableNext == BitboardSubsets \/ SliderMoves

SpecTable == TableInit /\ [][TableNext]_vars

---------------------------------------------------------------------------
(* Properties                                                              *)

\* the last operation was a make_move / an unmake_move
LastMade == op.kind = "make"
LastUnmade == op.kind = "unmake"

\* the piece and colour that moved in the last make_move
MovedPiece == piece_at(op.before, op.move.from)
Mover == op.before.active_color

\* the colour whose move the last unmake_move took back, and the piece
Unmover == board.active_color
UnmovedPiece == piece_at(board, op.move.from)

\* the en-passant target square a Board records for the side to move
EpTarget(b) ==
    (en_passant_rank(inverse(b.active_color)) * 8) + en_passant_file_unchecked(b.flags)

\* the square with the file of `to` and the rank of `from`
BehindTo(m) == (rank(m.from) * 8) + file(m.to)

\* C1: make_move(m) followed immediately by unmake_move with the MoveData that
\* make_move produced leaves the Board equal to its pre-move value in every
\* field, and the history as it was.
C1_MakeUnmakeIdentity ==
    (LastUnmade /\ op.immediate) => Snapshot(board, move_list) = op.expect

\* one legal move from the start position, then a legal move made and unmade
C1_Witness ==
    /\ LastUnmade
    /\ op.immediate
    /\ start = StartBoard
    /\ Len(move_list) = 1

\* C2: after a sequence of legal moves is made and then unmade once per move in
\* last-in-first-out order, the Board equals the position the sequence began
\* from and the history is empty.
C2_SequentialReplay ==
    (LastUnmade /\ trail = << >>) => (board = start /\ move_list = << >>)

\* two or more moves from the start position, all of them unmade
C2_Witness ==
    /\ LastUnmade
    /\ ~op.immediate
    /\ trail = << >>
    /\ start = StartBoard

\* C3: perft on the standard start position returns 20 at depth 1, 400 at
\* depth 2 and 8902 at depth 3.
C3_PerftStart ==
    (board = StartBoard) =>
        /\ perft(board, 1) = PerftResult("ok", 20)
        /\ perft(board, 2) = PerftResult("ok", 400)
        /\ perft(board, 3) = PerftResult("ok", 8902)

\* how often move m occurs in a list of moves
Occurrences(moves, m) == Cardinality({i \in 1 .. Len(moves) : moves[i] = m})

\* after m is made, the king of the side that just moved is not attacked
KingSafeAfter(b, m) ==
    LET after == make_move(b, m).board
    IN  ~square_attacked_by(after,
            trailing_zeros(bitboard(after, King, b.active_color)),
            after.active_color)

\* a position the driver goes on to move from
MovesAhead == op.kind \in {"init", "make"} /\ Len(move_list) < MaxPly

\* C4: legal_moves returns exactly the pseudo-legal moves after which the
\* mover's king is not attacked: each such move as often as pseudolegal_moves
\* lists it, every other pseudo-legal move not at all, and nothing else.
C4_LegalityFilter ==
    LET pseudo == pseudolegal_moves(board)
        legal == legal_moves(board)
    IN  (MovesAhead /\ pseudo.status = "ok" /\ legal.status = "ok") =>
            /\ Range(legal.moves) \subseteq Range(pseudo.moves)
            /\ \A m \in Range(pseudo.moves) :
                Occurrences(legal.moves, m) =
                    IF KingSafeAfter(board, m) THEN Occurrences(pseudo.moves, m) ELSE 0

\* a position where legal_moves keeps some pseudo-legal moves and drops others
C4_Witness ==
    LET pseudo == pseudolegal_moves(board)
        legal == legal_moves(board)
    IN  /\ MovesAhead
        /\ pseudo.status = "ok"
        /\ legal.status = "ok"
        /\ Len(legal.moves) > 1
        /\ Len(pseudo.moves) > Len(legal.moves) + 1

\* C5: when a pawn moves onto the recorded en-passant target square, make_move
\* removes the enemy pawn from the square with the file of `to` and the rank of
\* `from`, records Pawn as captured and leaves the capturing pawn on `to`;
\* unmake_move puts the enemy pawn back on that square, not on `to`.
C5_EnPassantExactness ==
    /\ (/\ LastMade
        /\ MovedPiece = Pawn
        /\ en_passant_valid(op.before.flags)
        /\ op.move.to = EpTarget(op.before)) =>
            /\ BehindTo(op.move) \in bitboard(op.before, Pawn, inverse(Mover))
            /\ bitboard(board, Pawn, inverse(Mover)) =
                   bitboard(op.before, Pawn, inverse(Mover)) \ {BehindTo(op.move)}
            /\ piece_at(board, BehindTo(op.move)) = None
            /\ op.md.captured_piece = Pawn
            /\ op.move.to \in bitboard(board, Pawn, Mover)
            /\ piece_at(board, op.move.to) = Pawn
            /\ op.move.to \notin bitboard(board, Pawn, inverse(Mover))
    /\ (/\ LastUnmade
        /\ UnmovedPiece = Pawn
        /\ en_passant_valid(board.flags)
        /\ op.move.to = EpTarget(board)) =>
            /\ BehindTo(op.move) \in bitboard(board, Pawn, inverse(Unmover))
            /\ op.move.to \notin occupied(board)
            /\ op.move.from \in bitboard(board, Pawn, Unmover)

\* an en-passant capture that was made and then unmade
C5_Witness ==
    /\ LastUnmade
    /\ UnmovedPiece = Pawn
    /\ en_passant_valid(board.flags)
    /\ op.move.to = EpTarget(board)
    /\ op.md.captured_piece = Pawn

\* C6: after a successful make_move, halfmoves is 0 if the moved piece is a
\* pawn or the move captured a piece (en passant included), and the previous
\* halfmoves + 1 otherwise.
C6_HalfmoveClock ==
    LastMade =>
        board.halfmoves =
            IF MovedPiece = Pawn \/ op.md.captured_piece # None
            THEN 0
            ELSE op.before.halfmoves + 1

\* C7: make_move adds exactly 1 to fullmoves when Black moved and nothing when
\* White moved; unmake_move subtracts exactly 1 when the move undone was
\* Black's and nothing otherwise.
C7_FullmoveCounter ==
    /\ LastMade =>
        board.fullmoves = op.before.fullmoves + (IF Mover = Black THEN 1 ELSE 0)
    /\ LastUnmade =>
        board.fullmoves = op.before.fullmoves - (IF Unmover = Black THEN 1 ELSE 0)

\* the move is a pawn's two-square advance
TwoSquareAdvance(b, m) ==
    /\ piece_at(b, m.from) = Pawn
    /\ rank(m.to) - rank(m.from) \in {2, -2}

\* C8: after any successful make_move the en-passant valid bit is set if and
\* only if the move was a pawn two-square advance, and then the recorded file
\* is that pawn's file; any other move leaves the valid bit clear.
C8_EnPassantOnePly ==
    LastMade =>
        /\ en_passant_valid(board.flags) <=> TwoSquareAdvance(op.before, op.move)
        /\ en_passant_valid(board.flags) =>
               en_passant_file_unchecked(board.flags) = file(op.move.from)

\* a two-square advance answering a two-square advance on another file
C8_Witness ==
    /\ LastMade
    /\ TwoSquareAdvance(op.before, op.move)
    /\ en_passant_valid(op.before.flags)
    /\ en_passant_file_unchecked(op.before.flags) # file(op.move.from)

\* the rook home squares and the castling-right bit tied to each
Corners == {A1, H1, A8, H8}

CornerRight(c) ==
    IF c = A1 THEN WHITE_QUEENSIDE
    ELSE IF c = H1 THEN WHITE_KINGSIDE
    ELSE IF c = A8 THEN BLACK_QUEENSIDE
    ELSE BLACK_KINGSIDE

CornerColor(c) == IF c \in {A1, H1} THEN White ELSE Black

HasRight(flags, c) == And8(flags, CornerRight(c)) # 0

\* a king's two-file step; its rook's corner and the square the king crosses
KingShiftsTwoFiles(m) == file(m.to) - file(m.from) \in {2, -2}
CastlingCorner(m) == (rank(m.from) * 8) + (IF file(m.to) > file(m.from) THEN 7 ELSE 0)
CastlingCrossed(m) == (rank(m.from) * 8) + (IF file(m.to) > file(m.from) THEN 5 ELSE 3)

\* after a king move both rights of the mover are clear
C9_MoverRightsCleared ==
    (LastMade /\ MovedPiece = King) =>
        \A c \in Corners : CornerColor(c) = Mover => ~HasRight(board.flags, c)

\* castling moves the rook from its corner to the crossed square, and
\* unmake_move moves it back
C9_RookRelocated ==
    /\ (LastMade /\ MovedPiece = King /\ KingShiftsTwoFiles(op.move)) =>
        /\ CastlingCorner(op.move) \in bitboard(op.before, Rook, Mover)
        /\ bitboard(board, Rook, Mover) =
               (bitboard(op.before, Rook, Mover) \ {CastlingCorner(op.move)})
                   \cup {CastlingCrossed(op.move)}
    /\ (LastUnmade /\ UnmovedPiece = King /\ KingShiftsTwoFiles(op.move)) =>
        /\ CastlingCrossed(op.move) \in bitboard(op.before, Rook, Unmover)
        /\ bitboard(board, Rook, Unmover) =
               (bitboard(op.before, Rook, Unmover) \ {CastlingCrossed(op.move)})
                   \cup {CastlingCorner(op.move)}

\* C9 as stated: make_move of any king move clears both castling rights of the
\* moving colour and none of the opponent's; castling also moves the rook from
\* its corner to the square the king crossed, and unmake_move moves it back.
C9_KingMovesAsStated ==
    /\ C9_MoverRightsCleared
    /\ C9_RookRelocated
    /\ (LastMade /\ MovedPiece = King) =>
        \A c \in Corners : CornerColor(c) # Mover =>
            (HasRight(board.flags, c) <=> HasRight(op.before.flags, c))

\* C9, amended: a king move clears both rights of the moving colour, and of the
\* opponent's rights only the one tied to the corner the king lands on (when it
\* captures there); castling moves the rook as stated.
C9_KingMoves ==
    /\ C9_MoverRightsCleared
    /\ C9_RookRelocated
    /\ (LastMade /\ MovedPiece = King) =>
        \A c \in Corners : CornerColor(c) # Mover =>
            (HasRight(board.flags, c) <=>
                (HasRight(op.before.flags, c) /\ op.move.to # c))

\* a castling move, made with the mover's rights set and then unmade
C9_Witness ==
    /\ LastUnmade
    /\ UnmovedPiece = King
    /\ KingShiftsTwoFiles(op.move)
    /\ HasRight(board.flags, CastlingCorner(op.move))
    /\ op.immediate

\* C10 as stated: make_move clears the right tied to a rook home square
\* whenever the move's `from` or `to` is that corner, whichever piece is
\* moving, and a non-king move clears no other castling right.
C10_CornerRightsAsStated ==
    LastMade =>
        \A c \in Corners :
            /\ (op.move.from = c \/ op.move.to = c) => ~HasRight(board.flags, c)
            /\ (MovedPiece # King /\ op.move.from # c /\ op.move.to # c) =>
                   (HasRight(board.flags, c) <=> HasRight(op.before.flags, c))

\* C10, amended: make_move clears the right tied to a corner when the move's
\* `to` is that corner or a rook moves from it; a non-king move changes no
\* other right, so a piece other than a rook leaving a corner keeps that
\* corner's right as it was.
C10_CornerRights ==
    LastMade =>
        \A c \in Corners :
            LET clears == op.move.to = c \/ (op.move.from = c /\ MovedPiece = Rook)
            IN  /\ clears => ~HasRight(board.flags, c)
                /\ (MovedPiece # King /\ ~clears) =>
                       (HasRight(board.flags, c) <=> HasRight(op.before.flags, c))

\* a rook leaves its corner, or a piece lands on a corner, with the right set
C10_Witness ==
    /\ LastMade
    /\ MovedPiece # King
    /\ \E c \in Corners :
        /\ HasRight(op.before.flags, c)
        /\ op.move.to = c \/ (op.move.from = c /\ MovedPiece = Rook)

\* the last operation was a make_move that returned MakeMoveError
LastFailed == op.kind = "fail"

\* C11: make_move fails if and only if the move's `from` square holds no
\* piece (tried on every square of a loaded position, and on the vacated and
\* the occupied square after each move made); it then returns MakeMoveError
\* and leaves the Board, and the history held beside it, exactly as before.
C11_MakeMoveFailure ==
    /\ op.kind = "init" =>
        \A from \in Squares : \A to \in {(from + 8) % 64, 63 - from} :
            (make_move(board, Move(from, to, None)).status = "err")
                <=> (piece_at(board, from) = None)
    /\ LastMade =>
        /\ piece_at(op.before, op.move.from) # None
        /\ make_move(board, Move(op.move.from, op.move.to, None)).status = "err"
        /\ make_move(board, Move(op.move.to, op.move.from, None)).status # "err"
    /\ LastFailed =>
        /\ piece_at(op.before, op.move.from) = None
        /\ board = op.before
        /\ Snapshot(board, move_list) = op.expect

\* a make_move that failed on an empty `from` square with a piece on `to`
C11_Witness ==
    /\ LastFailed
    /\ piece_at(op.before, op.move.from) = None
    /\ piece_at(op.before, op.move.to) # None

\* the squares a pawn of the side to move on `from` can reach on the last
\* rank: the empty square straight ahead, an enemy piece diagonally ahead
PromotionTargets(b, from) ==
    LET ahead == from + (8 * direction(b.active_color)) IN
    {to \in Squares :
        /\ rank(to) \in {0, 7}
        /\ rank(to) = rank(from) + direction(b.active_color)
        /\ \/ to = ahead /\ to \notin occupied(b)
           \/ abs_diff(file(to), file(from)) = 1 /\ to \in enemy_pieces(b)}

\* C12: wherever pseudolegal_moves returns, every single push or capture of a
\* pawn of the side to move that reaches the last rank is listed as exactly
\* four moves, one each promoting to knight, bishop, rook and queen, and is
\* not listed without a promotion.
C12_PromotionCompleteness ==
    (MovesAhead /\ pseudolegal_moves(board).status = "ok") =>
        \A from \in bitboard(board, Pawn, board.active_color) :
            \A to \in PromotionTargets(board, from) :
                /\ \A p \in PromotionPieces :
                      Occurrences(pseudolegal_moves(board).moves, Move(from, to, p)) = 1
                /\ Occurrences(pseudolegal_moves(board).moves, Move(from, to, None)) = 0

\* the king of the side to move, its home square and the opponent
ToMoveKing == trailing_zeros(bitboard(board, King, board.active_color))
HomeSquare == IF board.active_color = White THEN E1 ELSE E8
Opponent == inverse(board.active_color)

\* a move of the side to move's king from its home square to the g- or c-file
IsCastling(m) ==
    /\ m.from = HomeSquare
    /\ m.from = ToMoveKing
    /\ m.to \in {HomeSquare + 2, HomeSquare - 2}

\* the castling moves the generator produces in the current position: those
\* of its castling block, and those in the list it returns where it returns
CastlingsGenerated ==
    Range(CastlingMoves(board, ToMoveKing))
        \cup (IF pseudolegal_moves(board).status = "ok"
              THEN {m \in Range(pseudolegal_moves(board).moves) : IsCastling(m)}
              ELSE {})

\* what chess asks of a castling move to `to`: the right, the squares between
\* king and rook, the square the king passes through
CastlingRightSet(to) ==
    Bit(board.flags, (2 * board.active_color) + (IF to > HomeSquare THEN 0 ELSE 1)) = 1
BetweenKingAndRook(to) ==
    IF to > HomeSquare THEN {HomeSquare + 1, HomeSquare + 2}
    ELSE {HomeSquare - 1, HomeSquare - 2, HomeSquare - 3}
TransitSquare(to) == IF to > HomeSquare THEN HomeSquare + 1 ELSE HomeSquare - 1
Attacked(sq) == square_attacked_by(board, sq, Opponent)

\* C13: the generator produces no castling move for a side whose right bit
\* is clear, or with a square between king and rook occupied, or with the
\* king's square or the square it passes through attacked; and the legality
\* filter removes a castling move whose landing square is attacked.
C13_CastlingGating ==
    MovesAhead =>
        /\ \A m \in CastlingsGenerated :
              /\ IsCastling(m)
              /\ m.promotion = None
              /\ CastlingRightSet(m.to)
              /\ BetweenKingAndRook(m.to) \cap occupied(board) = {}
              /\ ~Attacked(HomeSquare)
              /\ ~Attacked(TransitSquare(m.to))
        /\ ToMoveKing = HomeSquare =>
              \A to \in {HomeSquare + 2, HomeSquare - 2} :
                  (BetweenKingAndRook(to) \cap occupied(board) = {} /\ Attacked(to)) =>
                      legal_moves_loop(board, << Move(HomeSquare, to, None) >>, 1) = << >>

\* a side to move that holds a castling right, has the squares to the rook's
\* corner empty and is not in check, but whose king would pass an attacked
\* square: the generator leaves that castling move out
C13_Witness ==
    /\ MovesAhead
    /\ ToMoveKing = HomeSquare
    /\ \E to \in {HomeSquare + 2, HomeSquare - 2} :
        /\ CastlingRightSet(to)
        /\ BetweenKingAndRook(to) \cap occupied(board) = {}
        /\ ~Attacked(HomeSquare)
        /\ Attacked(TransitSquare(to))
        /\ \A m \in CastlingsGenerated : m.to # to

\* the en-passant captures in a move list for position b: a pawn's move to
\* another file that lands on an empty square
EnPassantCaptures(b, moves) ==
    {m \in Range(moves) :
        /\ piece_at(b, m.from) = Pawn
        /\ file(m.from) # file(m.to)
        /\ m.to \notin occupied(b)}

\* b with the en-passant valid bit clear and f in the three file bits
StaleEnPassant(b, f) == [b EXCEPT !.flags = (b.flags % 16) + (16 * f)]

\* the square the flags name: the file of the file bits, on the rank behind a
\* pawn of the side not to move that has just advanced two squares
FlaggedTarget(b) ==
    ((IF b.active_color = White THEN 5 ELSE 2) * 8) + ((b.flags \div 16) % 8)

\* C14: with the en-passant valid bit clear, pseudolegal_moves lists no
\* en-passant capture whatever the three file bits hold and wherever the pawns
\* stand; with it set, every en-passant capture listed is made by a pawn of
\* the side to move standing diagonally behind the target square.
C14_EnPassantGating ==
    (MovesAhead /\ pseudolegal_moves(board).status = "ok") =>
        /\ \A f \in 0 .. 7 :
              EnPassantCaptures(StaleEnPassant(board, f),
                  pseudolegal_moves(StaleEnPassant(board, f)).moves) = {}
        /\ Bit(board.flags, 7) = 1 =>
              \A m \in EnPassantCaptures(board, pseudolegal_moves(board).moves) :
                  /\ m.from \in bitboard(board, Pawn, board.active_color)
                  /\ m.to = FlaggedTarget(board)
                  /\ rank(m.from) + direction(board.active_color) = rank(m.to)
                  /\ abs_diff(file(m.from), file(m.to)) = 1
                  /\ m.promotion = None

\* a position with the valid bit set where an en-passant capture is listed
C14_Witness ==
    /\ MovesAhead
    /\ pseudolegal_moves(board).status = "ok"
    /\ Bit(board.flags, 7) = 1
    /\ EnPassantCaptures(board, pseudolegal_moves(board).moves) # {}

\* the legal moves of the position, as chess defines them over the moves the
\* generator lists: those after which the mover's king is not attacked
LegalIndices(b, moves) == {i \in 1 .. Len(moves) : KingSafeAfter(b, moves[i])}

RECURSIVE SumOver(_, _)
SumOver(f, S) ==
    IF S = {} THEN 0
    ELSE LET i == CHOOSE x \in S : TRUE IN f[i] + SumOver(f, S \ {i})

\* C15: perft at depth 0 returns 1 in any position; at depth 1 it returns the
\* number of legal moves; at every depth d >= 1 it returns the sum over the
\* legal moves of perft at depth d - 1 of the position after the move; so
\* Board::perft, which answers depth 1 by counting, and debug::perft, which
\* always recurses, return the same count.
C15_PerftDefinition ==
    /\ op.kind \in {"perft", "Board::perft"} /\ op.depth = 0 =>
          op.result = PerftResult("ok", 1)
    /\ op.kind = "Board::perft" /\ op.depth >= 1 =>
          LET moves == Board_pseudolegal_moves(board).moves
              below == [i \in 1 .. Len(moves) |->
                          Board_perft(make_move(board, moves[i]).board, op.depth - 1).count]
          IN  /\ op.result.status = "ok"
              /\ op.result.count = SumOver(below, LegalIndices(board, moves))
              /\ op.depth = 1 =>
                    op.result.count = Cardinality(LegalIndices(board, moves))
    /\ op.kind = "perft" /\ op.depth >= 1 /\ legal_moves(board).status = "ok" =>
          LET moves == legal_moves(board).moves
              below == [i \in 1 .. Len(moves) |->
                          perft(make_move(board, moves[i]).board, op.depth - 1)]
          IN  /\ op.depth = 1 => op.result = PerftResult("ok", Len(moves))
              /\ op.result.status = "ok" =>
                    op.result.count =
                        SumOver([i \in 1 .. Len(moves) |-> below[i].count],
                                1 .. Len(moves))
    /\ op.kind = "perft" =>
          op.result = Board_perft(board, op.depth)

\* the root moves the loop of perft_parallel has been through that leave the
\* mover's king unattacked, and the k-th of them
RootMovesSpawned ==
    {j \in 1 .. (caller.i - 1) : is_legal_move(start, caller.moves[j])}
SpawnedRootMove(k) ==
    CHOOSE j \in RootMovesSpawned :
        Cardinality({l \in RootMovesSpawned : l <= j}) = k

\* the workers that have added their count to the shared counter
WorkersAdded == {w \in 1 .. Len(handles) : handles[w].pc \in {"added", "done"}}

\* C16: perft_parallel returns the count perft returns, under every
\* interleaving of its workers: one worker per legal root move, each on its
\* own clone of the board after that move; the counter holds the counts of
\* the workers that have added, each once; it is read once every worker is
\* joined; the caller's board is as it was, and no thread panics.
C16_ParallelPerft ==
    /\ board = start
    /\ move_list = << >>
    /\ caller.pc # "panicked"
    /\ caller.pc \in {"loop", "join", "returned"} /\ caller.depth >= 2 =>
        /\ Len(handles) = Cardinality(RootMovesSpawned)
        /\ \A w \in 1 .. Len(handles) :
            /\ handles[w].board =
                   make_move(start, caller.moves[SpawnedRootMove(w)]).board
            /\ handles[w].pc # "panicked"
            /\ handles[w].pc # "spawned" =>
                   handles[w].perft =
                       Board_perft(handles[w].board, caller.depth - 1).count
        /\ results = SumOver([w \in 1 .. Len(handles) |-> handles[w].perft], WorkersAdded)
        /\ mutex # 0 => handles[mutex].pc \in {"locked", "added"}
        /\ \A w \in 1 .. Len(handles) : handles[w].pc \in {"locked", "added"} => mutex = w
    /\ caller.pc = "returned" =>
        /\ caller.ret = Board_perft(start, caller.depth).count
        /\ Board_perft(start, caller.depth).status = "ok"
        /\ caller.depth >= 2 =>
            /\ caller.i = Len(caller.moves) + 1
            /\ caller.joined = Len(handles)
            /\ \A w \in 1 .. Len(handles) : handles[w].pc = "done"
            /\ caller.ret = results

\* a call at depth 2 or more has returned: it ran several workers, skipped a
\* root move that leaves the king attacked, and counted more than one
\* position under some worker
C16_Witness ==
    /\ caller.pc = "returned"
    /\ caller.depth >= 2
    /\ Len(handles) >= 2
    /\ Len(handles) < Len(caller.moves)
    /\ \E w \in 1 .. Len(handles) : handles[w].perft > 1
    /\ caller.ret > handles[Len(handles)].perft

\* the legal root moves of the position, in the order the generator of the
\* Board lists them, and the perft count below one of them
LegalRootMoves ==
    SelectSeq(Board_pseudolegal_moves(board).moves, LAMBDA m : KingSafeAfter(board, m))
CountBelow(m, depth) == Board_perft(make_move(board, m).board, depth - 1).count

\* what divide is to return for the call recorded in op, as a property of
\* the value it returned
DivideContract(divided, depth) ==
    /\ divided.status = "ok"
    /\ Len(divided.results) = Len(LegalRootMoves)
    /\ \A m \in Range(LegalRootMoves) :
          Cardinality({k \in 1 .. Len(divided.results) : divided.results[k].move = m}) =
              Occurrences(LegalRootMoves, m)
    /\ \A k \in 1 .. Len(divided.results) :
          divided.results[k].count = CountBelow(divided.results[k].move, depth)
    /\ \A k \in 1 .. (Len(divided.results) - 1) :
          ~Move_lt(divided.results[k + 1].move, divided.results[k].move)
    /\ divided.total =
          SumOver([k \in 1 .. Len(divided.results) |-> divided.results[k].count],
                  1 .. Len(divided.results))

\* Board::divide keeps to it, and its total is what Board::perft returns
BoardDivideContract ==
    (op.kind = "Board::divide" /\ op.depth >= 1) =>
        /\ DivideContract(op.result, op.depth)
        /\ op.result.total = Board_perft(board, op.depth).count

\* C17: divide(depth), for depth >= 1, returns one entry per legal root move
\* holding perft(depth - 1) of the position after that move, the entries in
\* ascending Move order, and a total equal to the sum of the entries and to
\* perft(depth) of the position; of Board::divide and of debug::divide alike.
C17_Divide ==
    /\ BoardDivideContract
    /\ (op.kind = "divide" /\ op.depth >= 1) =>
        /\ DivideContract(op.result, op.depth)
        /\ op.result.total = perft(board, op.depth).count

\* the text is six sections as FEN writes them, of a position load_from_fen
\* accepts: castling letters in the order KQkq or '-', and an en-passant
\* target on the sixth rank with White to move, on the third with Black
WellFormedFen(fen_text) ==
    LET sections == split(fen_text) IN
    /\ sections \in WellFormedSections
    /\ sections[4] \in {<< "-" >>,
                         IF sections[2] = << "w" >> THEN << "e", "6" >> ELSE << "e", "3" >>}

\* C18: loading a well-formed FEN text of a valid position and writing the
\* Board back with fen() yields the same text, character for character, for
\* every set of castling rights and with or without an en-passant target.
C18_FenRoundTrip ==
    (op.kind = "fen" /\ WellFormedFen(op.fen)) =>
        /\ op.status = "ok"
        /\ op.returned = op.fen

\* a piece placement text is syntactically valid from character i on, with
\* `ranks_done` ranks closed and `width` squares in the open rank: piece
\* letters and digits 1..8 only, eight ranks, eight squares in each rank
RECURSIVE PlacementShape(_, _, _, _)
PlacementShape(position, i, ranks_done, width) ==
    IF i > Len(position) THEN ranks_done = 7 /\ width = 8
    ELSE IF position[i] = "/"
    THEN width = 8 /\ PlacementShape(position, i + 1, ranks_done + 1, 0)
    ELSE IF IndexIn(DigitChars, position[i]) # 0
    THEN /\ to_digit(position[i]) >= 1
         /\ PlacementShape(position, i + 1, ranks_done, width + to_digit(position[i]))
    ELSE /\ \E piece \in DOMAIN PieceChars :
                position[i] \in {PieceChars[piece], UpperPieceChars[piece]}
         /\ PlacementShape(position, i + 1, ranks_done, width + 1)

\* how many times a letter is written in a piece placement text
KingLetters(position, char) ==
    Cardinality({i \in 1 .. Len(position) : position[i] = char})

\* the text names a side to move, and the placed pieces of that side attack
\* the king of the other side
EnemyKingAttacked(sections) ==
    /\ Len(sections) >= 2
    /\ sections[2] \in ColorTexts
    /\ LET placed == load_position(Board_new, sections[1], 1, 7, 0).board
           mover == IF sections[2] = << "w" >> THEN White ELSE Black
       IN  square_attacked_by(placed,
               trailing_zeros(bitboard(placed, King, inverse(mover))), mover)

\* a syntactically valid placement that is rejected for its meaning
SemanticallyInvalid(fen_text) ==
    LET sections == split(fen_text) IN
    /\ PlacementShape(sections[1], 1, 0, 0)
    /\ \/ KingLetters(sections[1], "K") # 1
       \/ KingLetters(sections[1], "k") # 1
       \/ EnemyKingAttacked(sections)

PlacementPasses(position) ==
    LET placed == load_position(Board_new, position, 1, 7, 0) IN
    /\ placed.status = "ok"
    /\ Cardinality(bitboard(placed.board, King, White)) = 1
    /\ Cardinality(bitboard(placed.board, King, Black)) = 1

\* section k of the text, taken alone, is accepted by load_from_fen
SectionPasses(sections, k) ==
    IF k = 1 THEN PlacementPasses(sections[1])
    ELSE IF k = 2 THEN sections[2] \in ColorTexts /\ ~EnemyKingAttacked(sections)
    ELSE IF k = 3
    THEN \/ sections[3] = << "-" >>
         \/ \A j \in 1 .. Len(sections[3]) : sections[3][j] \in {"K", "Q", "k", "q"}
    ELSE IF k = 4
    THEN \/ sections[4] = << "-" >>
         \/ (IF Square_try_from(sections[4]) = "panic" THEN FALSE
              ELSE Square_try_from(sections[4]) # << >>)
    ELSE IF k = 5 THEN parse_u32(sections[5]) # << >>
    ELSE parse_u32(sections[6]) # << >> /\ parse_u32(sections[6]) # << 0 >>

\* every section that is present is accepted
PresentSectionsPass(sections) ==
    /\ PlacementPasses(sections[1])
    /\ \A k \in 2 .. Len(sections) : SectionPasses(sections, k)

C21_ParsersTotal ==
    op.kind \in {"load_from_fen", "from_fen", "Move::try_from", "Square::try_from"} =>
        op.status # "panic"

\* START_FEN
StartFenText ==
    JoinSections(<< StartPlacement, << "w" >>, << "K", "Q", "k", "q" >>, << "-" >>,
                    << "0" >>, << "1" >> >>)

\* C22: the Board that Board::default() builds equals, in every field, the
\* Board that load_from_fen and from_fen produce from the standard start
\* FEN: the twelve bitboards at the indices bitboard(piece, color) reads,
\* White to move, all four castling rights, no en-passant, halfmoves 0,
\* fullmoves 1.
C22_DefaultIsStartFen ==
    /\ (op.kind = "load_from_fen" /\ op.fen = StartFenText) =>
        /\ op.status = "ok"
        /\ board = StartBoard
    /\ (op.kind = "from_fen" /\ op.fen = StartFenText) =>
        /\ op.status = "ok"
        /\ op.returned = StartBoard
    /\ op.kind \in {"load_from_fen", "from_fen"} =>
        /\ bitboard(StartBoard, King, White) = {E1}
        /\ bitboard(StartBoard, King, Black) = {E8}
        /\ bitboard(StartBoard, Rook, White) = {A1, H1}
        /\ bitboard(StartBoard, Pawn, Black) = 48 .. 55
        /\ StartBoard.active_color = White
        /\ StartBoard.flags =
               WHITE_KINGSIDE + WHITE_QUEENSIDE + BLACK_KINGSIDE + BLACK_QUEENSIDE
        /\ StartBoard.halfmoves = 0
        /\ StartBoard.fullmoves = 1

\* load_from_fen has loaded the start FEN into a new Board
C22_Witness ==
    /\ op.kind = "load_from_fen"
    /\ op.fen = StartFenText
    /\ board = StartBoard

\* C23: Move::new(from, to) decodes to from() and to() equal to the inputs
\* and promotion() = None; Move::new_with_promotion(from, to, p) with p one
\* of Knight, Bishop, Rook, Queen decodes to the same squares and
\* promotion() = Some(p); the packed value fits 16 bits; two moves are equal
\* iff their (from, to, promotion) triples are equal.
C23_MoveEncoding ==
    /\ op.kind = "Move::new" =>
        /\ op.returned \in 0 .. 65535
        /\ Unpacked(op.returned) = op.given
    /\ (op.kind = "Move::new_with_promotion" /\ op.given.promotion \in PromotionPieces) =>
        /\ op.returned \in 0 .. 65535
        /\ Unpacked(op.returned) = op.given
        /\ Move_promotion(op.returned) # None
    /\ op.kind = "Move::cmp" =>
        (op.returned.eq <=> Unpacked(op.given[1]) = Unpacked(op.given[2]))

\* a promotion to a queen from h8 to a1 was packed: every bit of the two
\* squares is set or clear at once
C23_Witness ==
    /\ op.kind = "Move::new_with_promotion"
    /\ op.given = Move(H8, A1, Queen)
    /\ Unpacked(op.returned) = op.given

\* the place of a promotion in the order: none first, then the pieces
PromotionOrder(promotion) == IF promotion = None THEN 0 ELSE promotion + 1

\* the lexicographic order on (from, to, promotion)
LexLess(a, b) ==
    \/ a.from < b.from
    \/ a.from = b.from /\ a.to < b.to
    \/ a.from = b.from /\ a.to = b.to
        /\ PromotionOrder(a.promotion) < PromotionOrder(b.promotion)

\* C24: lt, le, gt, ge and cmp of Move are those of the lexicographic order
\* on (from, to, promotion) with no promotion below every promotion piece;
\* cmp returns Equal exactly when the two moves are equal; the order is
\* total and transitive.
C24_MoveOrdering ==
    op.kind = "Move::cmp" =>
        LET a == Unpacked(op.given[1])
            b == Unpacked(op.given[2])
        IN  /\ op.returned.lt <=> LexLess(a, b)
            /\ op.returned.gt <=> LexLess(b, a)
            /\ op.returned.le <=> ~LexLess(b, a)
            /\ op.returned.ge <=> ~LexLess(a, b)
            /\ op.returned.cmp = "Less" <=> op.returned.lt
            /\ op.returned.cmp = "Greater" <=> op.returned.gt
            /\ op.returned.cmp = "Equal" <=> op.given[1] = op.given[2]
            /\ op.returned.le \/ Move_le(b, a)
            /\ \A c \in CmpMoves :
                (op.returned.le /\ Move_le(b, Unpacked(c))) => Move_le(a, Unpacked(c))

\* two moves of one from and to square were compared, a promotion to a
\* knight against no promotion
C24_Witness ==
    /\ op.kind = "Move::cmp"
    /\ op.given = << Move_new_with_promotion(A8, H8, Knight), Move_new(A8, H8) >>
    /\ op.returned.cmp = "Greater"

\* C25: the text of a Move has exactly 4 characters when it has no
\* promotion and exactly 5 when it has one, the fifth being n, b, r or q;
\* Move::try_from of that text returns the same Move; a text of five
\* characters whose fifth is not one of n, b, r, q is rejected with
\* BadPromotion.
C25_MoveText ==
    /\ op.kind = "Move::fmt" =>
        IF Move_promotion(op.given) = None THEN Len(op.returned) = 4
        ELSE Len(op.returned) = 5 /\ op.returned[5] \in {"n", "b", "r", "q"}
    /\ (op.kind = "Move::try_from" /\ op.given.displayed # << >>) =>
        /\ op.status = "ok"
        /\ op.returned = op.given.displayed[1]
    /\ (op.kind = "Move::try_from" /\ Len(op.given.text) = 5
            /\ op.given.text[5] \notin {"n", "b", "r", "q"}) =>
        op.status = "BadPromotion"

\* C26: Square::try_from of the Display text of each square returns that
\* square, and a text of two characters is accepted only when, letter case
\* aside, it is the Display text of a square.
C26_SquareBijection ==
    /\ (op.kind = "Square::try_from" /\ op.given.displayed # << >>) =>
        /\ op.status = "ok"
        /\ op.returned = op.given.displayed
    /\ (op.kind = "Square::try_from" /\ Len(op.given.text) = 2 /\ op.status = "ok") =>
        \E square \in Squares :
            Square_fmt(square) = << to_ascii_lowercase(op.given.text[1]),
                                    to_ascii_lowercase(op.given.text[2]) >>

\* C27: in every position reached from a position load_from_fen accepts by
\* moves a legal-move generator returned, each colour has exactly one king
\* and the king of the side not to move is not attacked by the side to move.
C27_KingsOverPlay ==
    op.kind \in {"position", "move"} =>
        /\ Cardinality(bitboard(board, King, White)) = 1
        /\ Cardinality(bitboard(board, King, Black)) = 1
        /\ ~square_attacked_by(board,
               trailing_zeros(bitboard(board, King, inverse(board.active_color))),
               board.active_color)

\* a generated move was made that gives check: the side now to move has its
\* king attacked, the side that moved has not
C27_Witness ==
    /\ op.kind = "move"
    /\ Len(trail) >= 1
    /\ square_attacked_by(board,
           trailing_zeros(bitboard(board, King, board.active_color)),
           inverse(board.active_color))
    /\ ~square_attacked_by(board,
           trailing_zeros(bitboard(board, King, inverse(board.active_color))),
           board.active_color)

\* C28: for every Board reached from the start position by legal moves,
\* loading the text fen() writes gives a Board equal to it in every field,
\* the raw flags byte included.
C28_BoardFenInverse ==
    (op.kind = "reload" /\ start = StartBoard) =>
        /\ op.status = "ok"
        /\ op.returned = board

\* C29: whenever unmake_move returns UnmakeMoveError (no recorded move
\* data, or no piece on the `to` square of a move without promotion), the
\* Board is exactly as before the call, and so is the move history of the
\* Board that keeps it.
C29_UnmakeFailure ==
    (op.kind \in {"undo", "unmake"} /\ op.status = "err") =>
        /\ board = op.returned.board
        /\ move_list = op.returned.move_list

\* the pawns of a colour with an empty square directly ahead
SinglePushSources(color) ==
    {from \in bitboard(board, Pawn, color) :
        /\ from + (8 * direction(color)) \in Squares
        /\ from + (8 * direction(color)) \notin occupied(board)}

\* the pawns of a colour on their start rank with the two squares ahead empty
DoublePushSources(color) ==
    {from \in bitboard(board, Pawn, color) :
        /\ rank(from) = (IF color = White THEN 1 ELSE 6)
        /\ from + (8 * direction(color)) \notin occupied(board)
        /\ from + (16 * direction(color)) \notin occupied(board)}

\* the squares from which a list holds a straight pawn move of the side to
\* move over `distance` squares
PushFroms(moves, distance) ==
    {moves[i].from : i \in
        {j \in 1 .. Len(moves) :
            /\ moves[j].from \in bitboard(board, Pawn, board.active_color)
            /\ moves[j].to = moves[j].from + (distance * direction(board.active_color))}}

\* the four push-source functions give exactly those pawns
PushSourceFunctions ==
    LET empty == Not64(occupied(board)) IN
    /\ white_pawns_able_to_push(board, empty) = SinglePushSources(White)
    /\ black_pawns_able_to_push(board, empty) = SinglePushSources(Black)
    /\ white_pawns_able_to_double_push(board, empty) = DoublePushSources(White)
    /\ black_pawns_able_to_double_push(board, empty) = DoublePushSources(Black)

\* C30: a pawn is reported as able to single-push iff the square directly
\* ahead of it is empty, and as able to double-push iff it stands on its
\* start rank and the two squares ahead are empty; pseudolegal_moves lists a
\* push from exactly these squares for the side to move.
C30_PawnPushSources ==
    MovesAhead =>
        /\ PushSourceFunctions
        /\ pseudolegal_moves(board).status = "ok"
        /\ PushFroms(pseudolegal_moves(board).moves, 8)
               = SinglePushSources(board.active_color)
        /\ PushFroms(pseudolegal_moves(board).moves, 16)
               = DoublePushSources(board.active_color)

\* C31: a timer thread never sets the cancelled flag and never prints a
\* bestmove once the search it was created for has been stopped or has been
\* followed by a later start_search.
C31_StaleTimerSafety ==
    \A t \in 1 .. Len(cancellers) : ~cancellers[t].stale

\* search s takes a step that reads the cancelled flag: alpha_beta's entry,
\* its check after a recursive call, or the check after an iteration
ReadsFlag(s) ==
    /\ searches[s].pc \in {"alpha_beta", "returned", "iterated"}
    /\ searches'[s] # searches[s]

\* C32: once the cancelled flag has been set by stop() or by a timer, a
\* search that was running finds it set when it next reads it, at its next
\* alpha_beta entry at the latest, and so unwinds and ends without
\* publishing, also when start_search has been called again in between.
C32_CancellationObserved ==
    [][\A s \in 1 .. Len(searches) :
        (searches[s].stopped /\ ReadsFlag(s)) => cancelled]_vars

\* search s has just returned from a call of alpha_beta
JustReturned(s) == searches[s].pc \in {"returned", "iterated"}

C33_CarryRippler ==
    op.kind = "subsets" =>
        /\ op.returned.status = "ok"
        /\ Len(op.returned.subsets) = Pow2(Cardinality(op.given))
        /\ op.returned.subsets[1] = {}
        /\ Range(op.returned.subsets) = SUBSET op.given

\* the subsets of a mask with bits 0 and 63 and more have been listed
C33_Witness ==
    /\ op.kind = "subsets"
    /\ {0, 63} \subseteq op.given
    /\ Cardinality(op.given) = 5
    /\ Len(op.returned.subsets) = 32

\* the squares reached from `square` by steps of one file and rank direction,
\* as far as the edge of the board, stopping on the first blocker
RayTo(square, direction_of_ray, blockers) ==
    LET step(k) == << file(square) + (k * direction_of_ray[1]),
                      rank(square) + (k * direction_of_ray[2]) >>
        inside(k) == step(k)[1] \in 0 .. 7 /\ step(k)[2] \in 0 .. 7
        at(k) == (step(k)[2] * 8) + step(k)[1]
    IN  {at(k) : k \in {n \in 1 .. 7 :
            /\ inside(n)
            /\ \A j \in 1 .. (n - 1) : at(j) \notin blockers}}

RayDirections(slider) ==
    IF slider = "Rook"
    THEN {<< 1, 0 >>, << -1, 0 >>, << 0, 1 >>, << 0, -1 >>}
    ELSE {<< 1, 1 >>, << 1, -1 >>, << -1, 1 >>, << -1, -1 >>}

\* C34: for every square and blocker set, Slider::moves returns exactly the
\* squares on the slider's four rays from that square (along rank and file
\* for Rook, along the diagonals for Bishop) up to and including the first
\* blocker of each ray; the origin is never among them and no ray goes on
\* past an edge of the board.
C34_SliderRays ==
    op.kind = "moves" =>
        /\ op.returned =
            UNION {RayTo(op.square, d, op.given) : d \in RayDirections(op.slider)}
        /\ op.square \notin op.returned

\* a bishop on the h file with a blocker on one of its diagonals: two rays
\* end at once on the edge and one ends on the blocker
C34_Witness ==
    /\ op.kind = "moves"
    /\ op.slider = "Bishop"
    /\ op.square = 31
    /\ op.given = {13}
    /\ op.returned = {38, 45, 52, 59, 22, 13}

\* the bitboards that have the bit of a square set
BitboardsWith(square) == {i \in 0 .. 11 : square \in board.pieces[i]}

\* no square is in two of the twelve bitboards
PairwiseDisjoint == \A square \in Squares : Cardinality(BitboardsWith(square)) <= 1

\* piece_at gives the piece of the one bitboard that holds the square, and
\* None for a square in no bitboard
PieceAtUnique ==
    \A square \in Squares :
        piece_at(board, square) =
            IF BitboardsWith(square) = {} THEN None
            ELSE (CHOOSE i \in BitboardsWith(square) : TRUE) % 6

KingHome(color) == IF color = White THEN E1 ELSE E8

\* every castling right that is set has its king and its rook at home
RightsImplyHome(board_now) ==
    \A c \in Corners :
        HasRight(board_now.flags, c) =>
            /\ KingHome(CornerColor(c)) \in bitboard(board_now, King, CornerColor(c))
            /\ c \in bitboard(board_now, Rook, CornerColor(c))

\* the last move was a castling move
LastCastled == LastMade /\ MovedPiece = King /\ KingShiftsTwoFiles(op.move)

SecondLoadFailed == op.kind = "load_again" /\ op.status \notin {"ok", "panic"}

\* from_fen hands out a Board only when the whole text was loaded
FromFenAllOrNothing ==
    op.kind = "from_fen" =>
        IF op.status = "ok"
        THEN op.returned = load_from_fen(Board_new, op.fen).board
        ELSE op.returned = NoBoard

\* C38 as stated: after load_from_fen returns any ParseFenError the Board no
\* longer holds the position it had before the call, and from_fen never
\* exposes a partially loaded position.
C38_LoadNotAtomicAsStated ==
    /\ SecondLoadFailed => board # op.returned
    /\ FromFenAllOrNothing

\* C38, amended: after load_from_fen returns a ParseFenError nothing of the
\* earlier piece placement or flags is left: the bitboards and flags are what
\* the text put on cleared ones before the error, while the side to move and
\* the two counters keep their earlier values unless the text set them; the
\* Board equals the earlier one only when the text rebuilt it. from_fen
\* returns no Board on an error.
C38_LoadNotAtomic ==
    /\ SecondLoadFailed =>
        /\ board.pieces = load_from_fen(Board_new, op.fen).board.pieces
        /\ board.flags = load_from_fen(Board_new, op.fen).board.flags
        /\ board.active_color \in
               {op.returned.active_color, load_from_fen(Board_new, op.fen).board.active_color}
        /\ board.halfmoves \in
               {op.returned.halfmoves, load_from_fen(Board_new, op.fen).board.halfmoves}
        /\ board.fullmoves = op.returned.fullmoves
    /\ FromFenAllOrNothing

\* a failed load_from_fen has left a Board that differs from the position
\* held before the call, which had castling rights and pieces the Board has
\* lost
C38_Witness ==
    /\ SecondLoadFailed
    /\ board # op.returned
    /\ op.returned.flags # 0
    /\ board.flags = 0
    /\ \E i \in 0 .. 11 : op.returned.pieces[i] # {} /\ board.pieces[i] = {}

=============================================================================
